---- MODULE Spec2Model ----
(***************************************************************************)
(* Schema inference, path resolution and flattening of JsonSchemaExporter. *)
(*                                                                         *)
(* JavaScript values are tagged records:                                   *)
(*   null        [t |-> "null"]                                            *)
(*   undefined   [t |-> "undefined"]                                       *)
(*   string      [t |-> "str", s |-> <<characters>>]                       *)
(*   number      [t |-> "num", n |-> natural]                              *)
(*   object      [t |-> "obj", kv |-> <<[k |-> key, v |-> value], ...>>]   *)
(*               (entries in insertion order, keys distinct)               *)
(*   array       [t |-> "arr", el |-> <<value, ...>>]                      *)
(* A TypeError raised by the code is the value [t |-> "throw"].            *)
(* Strings (keys, paths, separators, cell texts) are sequences of          *)
(* one-character strings, so that concatenation, split, endsWith, slice    *)
(* and includes are computed as the code computes them.                    *)
(***************************************************************************)
EXTENDS Integers, Sequences, FiniteSets, TLC

VARIABLES doc, schemaTree, merged, path, rule, value, record, op,
          sourcePath, selectedCodes, matched, breadcrumbTree, levelIndex,
          files, filterType, filterKeyword, selection, savedPaths,
          cursor, pending, processedChunk, results, failures, settled,
          matchesLength, sampleI, sampleIndices,
          heap, heapBefore, roots,
          isScanning, queued, effect, passes,
          isExporting, exportProgress, filteredCount, processedCount

\* the state of the breadcrumb filter, and the index of the dropdown changed
\* last (-1 when none was)
crumbVars == <<sourcePath, selectedCodes, matched, breadcrumbTree, levelIndex>>

\* the state of the application: the loaded files
fileVars == <<files>>

\* the keyword side of the filter
filterVars == <<filterType, filterKeyword>>

\* the selection of the export columns (the selectedPaths of App)
\* and the copy of it kept in localStorage
selectVars == <<selection, savedPaths>>

\* a running export: the start of the current chunk, the files of the chunk
\* whose read has not completed, the results of the chunk, the rows and the
\* failure entries collected so far, and the files in the order their
\* processing completed
exportVars == <<cursor, pending, processedChunk, results, failures, settled>>

\* the state of the controls and of the export
uiVars == <<filterVars, selectVars, exportVars>>

\* the sampling loop of the schema memo: matches.length, the loop variable i,
\* and the indices of the matches pushed to samples so far
sampleVars == <<matchesLength, sampleI, sampleIndices>>

\* the objects the schema operations have created, those there were before
\* the last call, and the references the calls have returned
heapVars == <<heap, heapBefore, roots>>

\* lazy scanning: the busy flag of the last render, the state updates queued
\* for the next render, the closure of the files-changed effect that has not
\* run yet, and the scan passes that have not returned
scanVars == <<isScanning, queued, effect, passes>>

\* the counters of the export panel
countVars == <<isExporting, exportProgress, filteredCount, processedCount>>

\* the state the document pipeline leaves alone
appVars == <<crumbVars, fileVars, uiVars, sampleVars, heapVars, scanVars, countVars>>

vars == <<doc, schemaTree, merged, path, rule, value, record, op, appVars>>

----------------------------------------------------------------------------
(* JavaScript values *)

JNull == [t |-> "null"]
Undefined == [t |-> "undefined"]
Thrown == [t |-> "throw"]
JStr(chars) == [t |-> "str", s |-> chars]
JNum(k) == [t |-> "num", n |-> k]
JObj(entries) == [t |-> "obj", kv |-> entries]
JArr(elems) == [t |-> "arr", el |-> elems]
Entry(key, val) == [k |-> key, v |-> val]

IsArray(x) == x.t = "arr"
IsObjectType(x) == x.t \in {"obj", "arr", "null"}
IsNullish(x) == x.t \in {"null", "undefined"}
Falsy(x) ==
    \/ x.t \in {"null", "undefined"}
    \/ (x.t = "num" /\ x.n = 0)
    \/ (x.t = "str" /\ x.s = <<>>)

----------------------------------------------------------------------------
(* Strings *)

ROOT == <<"r", "o", "o", "t">>
ITEM == <<"i", "t", "e", "m">>
DOT == <<".">>
BRACKETS == <<"[", "]">>
EMPTY == <<>>

RECURSIVE Concat(_)
Concat(ss) == IF ss = <<>> THEN <<>> ELSE Head(ss) \o Concat(Tail(ss))

RECURSIVE Join(_, _)
Join(ss, sep) ==
    IF ss = <<>> THEN <<>>
    ELSE IF Len(ss) = 1 THEN ss[1]
    ELSE ss[1] \o sep \o Join(Tail(ss), sep)

RECURSIVE SplitFrom(_, _, _)
SplitFrom(s, i, cur) ==
    IF i > Len(s) THEN <<cur>>
    ELSE IF s[i] = "." THEN <<cur>> \o SplitFrom(s, i + 1, <<>>)
    ELSE SplitFrom(s, i + 1, Append(cur, s[i]))

Split(s) == SplitFrom(s, 1, <<>>)

EndsWithBrackets(s) ==
    Len(s) >= 2 /\ s[Len(s) - 1] = "[" /\ s[Len(s)] = "]"

DropLast2(s) == SubSeq(s, 1, Len(s) - 2)

IncludesBrackets(s) ==
    \E i \in 1..(Len(s) - 1) : s[i] = "[" /\ s[i + 1] = "]"

Digit(d) == <<"0", "1", "2", "3", "4", "5", "6", "7", "8", "9">>[d + 1]

RECURSIVE NumToStr(_)
NumToStr(k) == IF k < 10 THEN <<Digit(k)>> ELSE NumToStr(k \div 10) \o <<Digit(k % 10)>>

----------------------------------------------------------------------------
(* SchemaNode {name, path, type, children?}: children is the list (empty  *)
(* when absent) and hasCh tells whether the children property is defined. *)

SchemaNode(nm, pth, typ) ==
    [name |-> nm, path |-> pth, type |-> typ, children |-> <<>>, hasCh |-> FALSE]

WithChildren(node, ch) == [node EXCEPT !.children = ch, !.hasCh = TRUE]

NoTree == [name |-> <<>>, path |-> <<>>, type |-> "none", children |-> <<>>, hasCh |-> FALSE]

\* const type = Array.isArray(obj) ? 'array' : (obj && typeof obj === 'object') ? 'object' : 'scalar'
TypeOfValue(obj) ==
    IF IsArray(obj) THEN "array"
    ELSE IF obj.t = "obj" THEN "object"
    ELSE "scalar"

\* let path = parentPath; if (name !== 'root') path = parentPath ? `${parentPath}.${name}` : name
NodePath(parentPath, name) ==
    IF name # ROOT
    THEN IF parentPath # <<>> THEN parentPath \o DOT \o name ELSE name
    ELSE parentPath

\* mergedChildren.findIndex(c => c.name === name), 0 for -1
RECURSIVE FindIndexFrom(_, _, _)
FindIndexFrom(children, name, i) ==
    IF i > Len(children) THEN 0
    ELSE IF children[i].name = name THEN i
    ELSE FindIndexFrom(children, name, i + 1)

FindIndex(children, name) == FindIndexFrom(children, name, 1)

\* the condition under which mergeSchemaTrees merges the children lists
MergesChildren(base, extra) == extra.type = "object" \/ extra.type = "array"

\* node.children = mergedChildren.length > 0 ? mergedChildren : undefined
SetMergedChildren(node, mergedChildren) ==
    [node EXCEPT !.children = mergedChildren, !.hasCh = Len(mergedChildren) > 0]

RECURSIVE mergeSchemaTrees(_, _)
RECURSIVE MergeChildList(_, _)

\* extraChildren.forEach(extraChild => { replace the same-named child by the merge, or push })
MergeChildList(mergedChildren, extraChildren) ==
    IF extraChildren = <<>> THEN mergedChildren
    ELSE LET extraChild == Head(extraChildren)
             existingIdx == FindIndex(mergedChildren, extraChild.name)
             next == IF existingIdx # 0
                     THEN [mergedChildren EXCEPT
                             ![existingIdx] = mergeSchemaTrees(mergedChildren[existingIdx], extraChild)]
                     ELSE Append(mergedChildren, extraChild)
         IN MergeChildList(next, Tail(extraChildren))

\* mutant: the children of a structured extra node replace those of the base
mergeSchemaTrees_Overwrite(base, extra) ==
    IF MergesChildren(base, extra)
    THEN SetMergedChildren(base, extra.children)
    ELSE base

mergeSchemaTrees(base, extra) ==
    IF MergesChildren(base, extra)
    THEN SetMergedChildren(base, MergeChildList(base.children, extra.children))
    ELSE base

RECURSIVE buildSchemaTree(_, _, _)
RECURSIVE BuildItems(_, _, _)
RECURSIVE BuildEntries(_, _)

\* the parent path an array item's subtree is built under, and its name
ItemParentPath(arrayPath) == arrayPath
ItemName == ITEM

\* for (const item of obj) { itemTree = buildSchemaTree(item, arrayPath, 'item'); fold with merge }
BuildItems(items, arrayPath, mergedItemTree) ==
    IF items = <<>> THEN mergedItemTree
    ELSE LET itemTree == buildSchemaTree(Head(items), ItemParentPath(arrayPath), ItemName)
         IN BuildItems(Tail(items), arrayPath,
                       IF mergedItemTree = NoTree THEN itemTree
                       ELSE mergeSchemaTrees(mergedItemTree, itemTree))

\* Object.entries(obj).map(([key, value]) => buildSchemaTree(value, parent, key))
BuildEntries(entries, parent) ==
    IF entries = <<>> THEN <<>>
    ELSE <<buildSchemaTree(Head(entries).v, parent, Head(entries).k)>>
         \o BuildEntries(Tail(entries), parent)

buildSchemaTree(obj, parentPath, name) ==
    LET type == TypeOfValue(obj)
        pth == NodePath(parentPath, name)
    IN IF type = "array"
       THEN LET arrayPath == pth \o BRACKETS
                node == SchemaNode(name, arrayPath, type)
            IN IF Len(obj.el) > 0
               THEN LET mergedItemTree == BuildItems(obj.el, arrayPath, NoTree)
                    IN IF mergedItemTree.hasCh
                       THEN WithChildren(node, mergedItemTree.children)
                       ELSE node
               ELSE node
       ELSE IF type = "object"
       THEN WithChildren(SchemaNode(name, pth, type),
                         BuildEntries(obj.kv, IF name = ROOT THEN <<>> ELSE pth))
       ELSE SchemaNode(name, pth, type)

\* buildSchemaTree(content): the defaults parentPath = '', name = 'root'
InferTree(content) == buildSchemaTree(content, <<>>, ROOT)

RECURSIVE getAllLeafPaths(_)
RECURSIVE LeafPathsOfList(_)

LeafPathsOfList(children) ==
    IF children = <<>> THEN <<>>
    ELSE getAllLeafPaths(Head(children)) \o LeafPathsOfList(Tail(children))

getAllLeafPaths(node) ==
    IF node.type = "scalar" THEN <<node.path>>
    ELSE IF node.hasCh THEN LeafPathsOfList(node.children)
    ELSE <<>>

\* SchemaTree.getAllChildrenPaths: the paths of every node but the root, which
\* the tree's checkboxes hand to the selection
RECURSIVE getAllChildrenPaths(_)
RECURSIVE ChildrenPathsOfList(_)

ChildrenPathsOfList(children) ==
    IF children = <<>> THEN <<>>
    ELSE getAllChildrenPaths(Head(children)) \o ChildrenPathsOfList(Tail(children))

getAllChildrenPaths(node) ==
    (IF node.name # ROOT THEN <<node.path>> ELSE <<>>)
    \o (IF node.hasCh THEN ChildrenPathsOfList(node.children) ELSE <<>>)

Range(seq) == {seq[i] : i \in DOMAIN seq}

\* App.schemaTree: let merged = buildSchemaTree(samples[0]); samples.slice(1).forEach(...)
RECURSIVE FoldFrom(_, _)
FoldFrom(tree, contents) ==
    IF contents = <<>> THEN tree
    ELSE FoldFrom(mergeSchemaTrees(tree, InferTree(Head(contents))), Tail(contents))

FoldTrees(samples) == FoldFrom(InferTree(Head(samples)), Tail(samples))

----------------------------------------------------------------------------
(* The composite-merge buildSchemaTree of the repository: the items of an *)
(* array are merged into one representative value, whose entries become   *)
(* the children of the array node.                                         *)

\* for (const key in obj2) { result[key] = key in result ? merge(result[key], obj2[key]) : obj2[key] }
RECURSIVE deepMergeForInference(_, _)
RECURSIVE MergeEntries(_, _)

MergeEntries(result, entries) ==
    IF entries = <<>> THEN result
    ELSE LET e == Head(entries)
             idx == FindIndexFrom([i \in DOMAIN result |-> [name |-> result[i].k]], e.k, 1)
             next == IF idx # 0
                     THEN [result EXCEPT ![idx] = Entry(e.k, deepMergeForInference(result[idx].v, e.v))]
                     ELSE Append(result, e)
         IN MergeEntries(next, Tail(entries))

deepMergeForInference(obj1, obj2) ==
    IF IsNullish(obj1) THEN obj2
    ELSE IF IsNullish(obj2) THEN obj1
    ELSE IF ~IsObjectType(obj1) \/ ~IsObjectType(obj2) THEN obj1
    ELSE IF IsArray(obj1) \/ IsArray(obj2)
    THEN LET arr1 == IF IsArray(obj1) THEN obj1.el ELSE <<obj1>>
             arr2 == IF IsArray(obj2) THEN obj2.el ELSE <<obj2>>
         IN JArr(arr1 \o arr2)
    ELSE JObj(MergeEntries(obj1.kv, obj2.kv))

\* obj.reduce((acc, item) => deepMergeForInference(acc, item), null)
RECURSIVE CombineItems(_, _)
CombineItems(acc, items) ==
    IF items = <<>> THEN acc
    ELSE CombineItems(deepMergeForInference(acc, Head(items)), Tail(items))

\* Object.entries(value): the own entries of an object, the index entries of an array
ObjectEntries(v) ==
    IF IsArray(v) THEN [i \in DOMAIN v.el |-> Entry(NumToStr(i - 1), v.el[i])]
    ELSE v.kv

RECURSIVE buildSchemaTreeComposite(_, _, _)
RECURSIVE BuildEntriesComposite(_, _)

BuildEntriesComposite(entries, parent) ==
    IF entries = <<>> THEN <<>>
    ELSE <<buildSchemaTreeComposite(Head(entries).v, parent, Head(entries).k)>>
         \o BuildEntriesComposite(Tail(entries), parent)

buildSchemaTreeComposite(obj, parentPath, name) ==
    LET type == TypeOfValue(obj)
        pth == NodePath(parentPath, name)
    IN IF type = "array"
       THEN LET arrayPath == pth \o BRACKETS
                node == SchemaNode(name, arrayPath, type)
            IN IF Len(obj.el) > 0
               THEN LET combinedItem == CombineItems(JNull, obj.el)
                    IN IF ~Falsy(combinedItem) /\ IsObjectType(combinedItem)
                       THEN WithChildren(node, BuildEntriesComposite(ObjectEntries(combinedItem), arrayPath))
                       ELSE node
               ELSE node
       ELSE IF type = "object"
       THEN WithChildren(SchemaNode(name, pth, type),
                         BuildEntriesComposite(obj.kv, IF name = ROOT THEN <<>> ELSE pth))
       ELSE SchemaNode(name, pth, type)

----------------------------------------------------------------------------
(* The schema operations on objects with identity.  The heap is the list   *)
(* of the objects created so far, a reference is an index into it, and 0   *)
(* is undefined.  A node object holds the reference of its children array, *)
(* an array object the references of its items, a record object (the       *)
(* schema map of utils/schema.ts) its entries in insertion order.          *)

NodeCell(nm, pth, typ, ch) ==
    [kind |-> "node", name |-> nm, path |-> pth, type |-> typ, children |-> ch]

ArrayCell(refs) == [kind |-> "array", items |-> refs]

MapCell(kvs) == [kind |-> "record", entries |-> kvs]

\* a new object: the heap with it, and its reference
Alloc(h, cell) == [heap |-> Append(h, cell), ref |-> Len(h) + 1]

\* an assignment to a property or an element of the object
Write(h, ref, cell) == [h EXCEPT ![ref] = cell]

\* base.children || []: the items of the children array, none when undefined
ItemsOf(h, children) == IF children = 0 THEN <<>> ELSE h[children].items

\* mergedChildren.findIndex(c => c.name === name), 0 for -1
RECURSIVE FindRefFrom(_, _, _, _)
FindRefFrom(h, refs, name, i) ==
    IF i > Len(refs) THEN 0
    ELSE IF h[refs[i]].name = name THEN i
    ELSE FindRefFrom(h, refs, name, i + 1)

RECURSIVE MergeOnHeap(_, _, _)
RECURSIVE MergeChildrenOnHeap(_, _, _, _)

\* extraChildren.forEach: mergedChildren[existingIdx] = mergeSchemaTrees(...)
\* or mergedChildren.push(extraChild), on the array object mergedChildren
MergeChildrenOnHeap(h, mergedChildren, extraChildren, i) ==
    IF i > Len(extraChildren) THEN h
    ELSE LET extraChild == extraChildren[i]
             existingIdx == FindRefFrom(h, h[mergedChildren].items, h[extraChild].name, 1)
         IN IF existingIdx # 0
            THEN LET m == MergeOnHeap(h, h[mergedChildren].items[existingIdx], extraChild)
                 IN MergeChildrenOnHeap(
                        Write(m.heap, mergedChildren,
                              ArrayCell([m.heap[mergedChildren].items
                                            EXCEPT ![existingIdx] = m.ref])),
                        mergedChildren, extraChildren, i + 1)
            ELSE MergeChildrenOnHeap(
                     Write(h, mergedChildren,
                           ArrayCell(Append(h[mergedChildren].items, extraChild))),
                     mergedChildren, extraChildren, i + 1)

\* mergeSchemaTrees(base, extra): node = { ...base } is a new object,
\* mergedChildren = [...baseChildren] a new array
MergeOnHeap(h, base, extra) ==
    LET node == Alloc(h, h[base])
    IN IF h[extra].type = "object" \/ h[extra].type = "array"
       THEN LET mergedChildren ==
                    Alloc(node.heap, ArrayCell(ItemsOf(h, h[base].children)))
                after == MergeChildrenOnHeap(mergedChildren.heap, mergedChildren.ref,
                                             ItemsOf(h, h[extra].children), 1)
            IN [heap |-> Write(after, node.ref,
                               [after[node.ref] EXCEPT
                                   !.children = IF Len(after[mergedChildren.ref].items) > 0
                                                THEN mergedChildren.ref ELSE 0]),
                ref |-> node.ref]
       ELSE node

RECURSIVE BuildOnHeap(_, _, _, _)
RECURSIVE BuildItemsOnHeap(_, _, _, _, _)
RECURSIVE BuildEntriesOnHeap(_, _, _, _, _)

\* for (const item of obj): itemTree = buildSchemaTree(item, arrayPath,
\* 'item'), folded into mergedItemTree (0 for null)
BuildItemsOnHeap(h, items, arrayPath, i, mergedItemTree) ==
    IF i > Len(items) THEN [heap |-> h, ref |-> mergedItemTree]
    ELSE LET itemTree == BuildOnHeap(h, items[i], arrayPath, ITEM)
         IN IF mergedItemTree = 0
            THEN BuildItemsOnHeap(itemTree.heap, items, arrayPath, i + 1, itemTree.ref)
            ELSE LET m == MergeOnHeap(itemTree.heap, mergedItemTree, itemTree.ref)
                 IN BuildItemsOnHeap(m.heap, items, arrayPath, i + 1, m.ref)

\* Object.entries(obj).map(...): the references of the trees of the entries
BuildEntriesOnHeap(h, entries, parent, i, refs) ==
    IF i > Len(entries) THEN [heap |-> h, refs |-> refs]
    ELSE LET child == BuildOnHeap(h, entries[i].v, parent, entries[i].k)
         IN BuildEntriesOnHeap(child.heap, entries, parent, i + 1, Append(refs, child.ref))

\* buildSchemaTree(obj, parentPath, name): the document is only read
BuildOnHeap(h, obj, parentPath, name) ==
    LET type == TypeOfValue(obj)
        pth == NodePath(parentPath, name)
        node == Alloc(h, NodeCell(name, pth, type, 0))
    IN IF type = "array"
       THEN LET arrayPath == pth \o BRACKETS
                pathSet == Write(node.heap, node.ref, NodeCell(name, arrayPath, type, 0))
            IN IF Len(obj.el) > 0
               THEN LET mergedItemTree == BuildItemsOnHeap(pathSet, obj.el, arrayPath, 1, 0)
                        children == mergedItemTree.heap[mergedItemTree.ref].children
                    IN IF children # 0
                       THEN [heap |-> Write(mergedItemTree.heap, node.ref,
                                            NodeCell(name, arrayPath, type, children)),
                             ref |-> node.ref]
                       ELSE [heap |-> mergedItemTree.heap, ref |-> node.ref]
               ELSE [heap |-> pathSet, ref |-> node.ref]
       ELSE IF type = "object"
       THEN LET built == BuildEntriesOnHeap(node.heap, obj.kv,
                                            IF name = ROOT THEN <<>> ELSE pth, 1, <<>>)
                children == Alloc(built.heap, ArrayCell(built.refs))
            IN [heap |-> Write(children.heap, node.ref,
                               NodeCell(name, pth, type, children.ref)),
                ref |-> node.ref]
       ELSE node

\* the tree of the node object, read off the heap
RECURSIVE TreeOf(_, _)
TreeOf(h, ref) ==
    [name |-> h[ref].name, path |-> h[ref].path, type |-> h[ref].type,
     children |-> [i \in DOMAIN ItemsOf(h, h[ref].children) |->
                      TreeOf(h, ItemsOf(h, h[ref].children)[i])],
     hasCh |-> h[ref].children # 0]

\* schema[key] is set
HasEntry(h, schema, key) == \E i \in DOMAIN h[schema].entries : h[schema].entries[i].k = key

\* if (!schema[key]) schema[key] = { path: key, type }
SetIfAbsent(h, schema, key, type) ==
    IF HasEntry(h, schema, key) THEN h
    ELSE Write(h, schema,
               MapCell(Append(h[schema].entries, [k |-> key, v |-> [path |-> key, type |-> type]])))

\* typeof item === 'object' && item !== null
IsObjectOrArray(v) == v.t \in {"obj", "arr"}

RECURSIVE BuildSchemaOnHeap(_, _, _, _)
RECURSIVE ScanItemsOnHeap(_, _, _, _, _)
RECURSIVE ScanEntriesOnHeap(_, _, _, _, _)

\* obj.forEach(item => { if (object) buildSchema(item, arrayPath, schema) })
ScanItemsOnHeap(h, items, arrayPath, schema, i) ==
    IF i > Len(items) THEN h
    ELSE ScanItemsOnHeap(IF IsObjectOrArray(items[i])
                         THEN BuildSchemaOnHeap(h, items[i], arrayPath, schema)
                         ELSE h,
                         items, arrayPath, schema, i + 1)

\* Object.entries(obj).forEach(([key, value]) => ...)
ScanEntriesOnHeap(h, entries, parentPath, schema, i) ==
    IF i > Len(entries) THEN h
    ELSE LET key == entries[i].k
             val == entries[i].v
             currentPath == IF parentPath # <<>> THEN parentPath \o DOT \o key ELSE key
             after ==
                 IF IsArray(val)
                 THEN ScanItemsOnHeap(SetIfAbsent(h, schema, currentPath \o BRACKETS, "array"),
                                      val.el, currentPath \o BRACKETS, schema, 1)
                 ELSE IF val.t = "obj"
                 THEN BuildSchemaOnHeap(h, val, currentPath, schema)
                 ELSE SetIfAbsent(h, schema, currentPath, "scalar")
         IN ScanEntriesOnHeap(after, entries, parentPath, schema, i + 1)

\* utils/schema.ts buildSchema(obj, parentPath, schema): the entries are
\* written into the record object handed in, which is also what is returned
BuildSchemaOnHeap(h, obj, parentPath, schema) ==
    IF IsNullish(obj) THEN h
    ELSE IF IsArray(obj)
    THEN LET arrayPath == IF parentPath # <<>> THEN parentPath \o BRACKETS ELSE BRACKETS
         IN ScanItemsOnHeap(SetIfAbsent(h, schema, arrayPath, "array"),
                            obj.el, arrayPath, schema, 1)
    ELSE IF obj.t = "obj" THEN ScanEntriesOnHeap(h, obj.kv, parentPath, schema, 1)
    ELSE h

----------------------------------------------------------------------------
(* Path resolution *)

\* current[key] for a key that is neither an array index nor an inherited
\* property name: a TypeError on null and undefined, the own property of an
\* object, undefined on arrays, strings and numbers.
RECURSIVE LookupFrom(_, _, _)
LookupFrom(entries, key, i) ==
    IF i > Len(entries) THEN Undefined
    ELSE IF entries[i].k = key THEN entries[i].v
    ELSE LookupFrom(entries, key, i + 1)

PropGet(current, key) ==
    IF IsNullish(current) THEN Thrown
    ELSE IF current.t = "obj" THEN LookupFrom(current.kv, key, 1)
    ELSE Undefined

\* current === null || current === undefined || typeof current !== 'object'
NotDescendable(current) == IsNullish(current) \/ ~IsObjectType(current)

\* val === undefined ? [] : [val]
KeepResolved(val) == IF val = Undefined THEN <<>> ELSE <<val>>

RECURSIVE getValueByPath(_, _)
RECURSIVE WalkParts(_, _, _)
RECURSIVE FlatMapResolve(_, _)

\* mutant: the results of the later elements come first
FlatMapResolve_Reversed(items, restPath) ==
    IF items = <<>> THEN JArr(<<>>)
    ELSE LET val == getValueByPath(Head(items), restPath)
         IN IF val = Thrown THEN Thrown
            ELSE LET rest == FlatMapResolve(Tail(items), restPath)
                 IN IF rest = Thrown THEN Thrown
                    ELSE JArr(rest.el \o KeepResolved(val))

\* array.flatMap(item => { const val = getValueByPath(item, restPath); ... })
FlatMapResolve(items, restPath) ==
    IF items = <<>> THEN JArr(<<>>)
    ELSE LET val == getValueByPath(Head(items), restPath)
         IN IF val = Thrown THEN Thrown
            ELSE LET rest == FlatMapResolve(Tail(items), restPath)
                 IN IF rest = Thrown THEN Thrown
                    ELSE JArr(KeepResolved(val) \o rest.el)

\* the body of the for loop over parts, from index i with the value current
WalkParts(current, parts, i) ==
    IF i > Len(parts) THEN current
    ELSE LET part == parts[i]
         IN IF EndsWithBrackets(part)
            THEN LET key == DropLast2(part)
                     array == IF key # <<>> THEN PropGet(current, key) ELSE current
                     restPath == Join(SubSeq(parts, i + 1, Len(parts)), DOT)
                 IN IF array = Thrown THEN Thrown
                    ELSE IF ~IsArray(array) THEN Undefined
                    ELSE IF restPath = <<>> THEN array
                    ELSE FlatMapResolve(array.el, restPath)
            ELSE IF NotDescendable(current) THEN Undefined
            ELSE WalkParts(PropGet(current, part), parts, i + 1)

getValueByPath(obj, pth) ==
    IF Falsy(obj) THEN Undefined
    ELSE WalkParts(obj, Split(pth), 1)

----------------------------------------------------------------------------
(* The other two getValueByPath of the repository *)

RECURSIVE getValueByPathGuardFirst(_, _)
RECURSIVE WalkPartsGuardFirst(_, _, _)
RECURSIVE FlatMapResolveGuardFirst(_, _)

FlatMapResolveGuardFirst(items, restPath) ==
    IF items = <<>> THEN JArr(<<>>)
    ELSE LET val == getValueByPathGuardFirst(Head(items), restPath)
         IN IF val = Thrown THEN Thrown
            ELSE LET rest == FlatMapResolveGuardFirst(Tail(items), restPath)
                 IN IF rest = Thrown THEN Thrown
                    ELSE JArr(KeepResolved(val) \o rest.el)

\* the loop body that tests current before it looks at the part
WalkPartsGuardFirst(current, parts, i) ==
    IF i > Len(parts) THEN current
    ELSE IF NotDescendable(current) THEN Undefined
    ELSE LET part == parts[i]
         IN IF EndsWithBrackets(part)
            THEN LET key == DropLast2(part)
                     array == IF key # <<>> THEN PropGet(current, key) ELSE current
                     restPath == Join(SubSeq(parts, i + 1, Len(parts)), DOT)
                 IN IF array = Thrown THEN Thrown
                    ELSE IF ~IsArray(array) THEN Undefined
                    ELSE IF restPath = <<>> THEN array
                    ELSE FlatMapResolveGuardFirst(array.el, restPath)
            ELSE WalkPartsGuardFirst(PropGet(current, part), parts, i + 1)

getValueByPathGuardFirst(obj, pth) ==
    IF Falsy(obj) THEN Undefined
    ELSE WalkPartsGuardFirst(obj, Split(pth), 1)

RECURSIVE getValueByPathMap(_, _)
RECURSIVE WalkPartsMap(_, _, _)
RECURSIVE MapResolve(_, _)

\* array.map(item => getValueByPath(item, restPath))
MapResolve(items, restPath) ==
    IF items = <<>> THEN JArr(<<>>)
    ELSE LET val == getValueByPathMap(Head(items), restPath)
         IN IF val = Thrown THEN Thrown
            ELSE LET rest == MapResolve(Tail(items), restPath)
                 IN IF rest = Thrown THEN Thrown
                    ELSE JArr(<<val>> \o rest.el)

\* the loop body of utils/schema.ts: no test of obj, the array segment
\* first, then current === null || current === undefined
WalkPartsMap(current, parts, i) ==
    IF i > Len(parts) THEN current
    ELSE LET part == parts[i]
         IN IF EndsWithBrackets(part)
            THEN LET key == DropLast2(part)
                     array == IF key # <<>> THEN PropGet(current, key) ELSE current
                     restPath == Join(SubSeq(parts, i + 1, Len(parts)), DOT)
                 IN IF array = Thrown THEN Thrown
                    ELSE IF ~IsArray(array) THEN Undefined
                    ELSE IF restPath = <<>> THEN array
                    ELSE MapResolve(array.el, restPath)
            ELSE IF IsNullish(current) THEN Undefined
            ELSE WalkPartsMap(PropGet(current, part), parts, i + 1)

getValueByPathMap(obj, pth) == WalkPartsMap(obj, Split(pth), 1)

----------------------------------------------------------------------------
(* Flattening *)

OBJECT_OBJECT ==
    <<"[", "o", "b", "j", "e", "c", "t", " ", "O", "b", "j", "e", "c", "t", "]">>

DefaultSeparator == <<";", " ">>

RECURSIVE JsonText(_)
RECURSIVE JsonTextList(_)
RECURSIVE JsonEntryList(_)

\* the texts of the elements of an array, as JSON.stringify writes them
JsonTextList(elems) ==
    IF elems = <<>> THEN <<>>
    ELSE <<JsonText(Head(elems))>> \o JsonTextList(Tail(elems))

JsonEntryList(entries) ==
    IF entries = <<>> THEN <<>>
    ELSE <<(<<"\"">> \o Head(entries).k \o <<"\"", ":">> \o JsonText(Head(entries).v))>>
         \o JsonEntryList(Tail(entries))

\* JSON.stringify(v), as a character sequence
JsonText(v) ==
    CASE v.t = "str" -> <<"\"">> \o v.s \o <<"\"">>
      [] v.t = "num" -> NumToStr(v.n)
      [] v.t = "arr" -> <<"[">> \o Join(JsonTextList(v.el), <<",">>) \o <<"]">>
      [] v.t = "obj" -> <<"{">> \o Join(JsonEntryList(v.kv), <<",">>) \o <<"}">>
      [] OTHER -> <<"n", "u", "l", "l">>

\* the text Array.prototype.join gives an element
RECURSIVE JoinText(_)
RECURSIVE JoinTextList(_)

JoinTextList(elems) ==
    IF elems = <<>> THEN <<>>
    ELSE <<JoinText(Head(elems))>> \o JoinTextList(Tail(elems))

JoinText(v) ==
    CASE v.t = "str" -> v.s
      [] v.t = "num" -> NumToStr(v.n)
      [] v.t = "arr" -> Join(JoinTextList(v.el), <<",">>)
      [] v.t = "obj" -> OBJECT_OBJECT
      [] OTHER -> <<>>

\* value.flat(Infinity)
RECURSIVE FlatInfinity(_)
FlatInfinity(elems) ==
    IF elems = <<>> THEN <<>>
    ELSE (IF IsArray(Head(elems)) THEN FlatInfinity(Head(elems).el) ELSE <<Head(elems)>>)
         \o FlatInfinity(Tail(elems))

\* .filter(v => v !== null && v !== undefined)
RECURSIVE FilterNonNullish(_)
FilterNonNullish(elems) ==
    IF elems = <<>> THEN <<>>
    ELSE (IF IsNullish(Head(elems)) THEN <<>> ELSE <<Head(elems)>>)
         \o FilterNonNullish(Tail(elems))

\* mutant: the null entries are kept
FlatValues_KeepNull(val) == FlatInfinity(val.el)

FlatValues(val) == FilterNonNullish(FlatInfinity(val.el))

\* value ?? ''
OrEmpty(v) == IF IsNullish(v) THEN JStr(<<>>) ELSE v

\* mutant: the default case of the switch counts instead of joining
ApplyRule_DefaultCounts(r, flatValues, separator) ==
    CASE r = "count" -> JNum(Len(flatValues))
      [] r = "first" -> IF flatValues = <<>> THEN JStr(<<>>) ELSE OrEmpty(flatValues[1])
      [] r = "last" -> IF flatValues = <<>> THEN JStr(<<>>)
                       ELSE OrEmpty(flatValues[Len(flatValues)])
      [] r = "json" -> JStr(JsonText(JArr(flatValues)))
      [] r = "join" -> JStr(Join(JoinTextList(flatValues), separator))
      [] OTHER -> JNum(Len(flatValues))

\* switch (rule) { ... }
ApplyRule(r, flatValues, separator) ==
    CASE r = "count" -> JNum(Len(flatValues))
      [] r = "first" -> IF flatValues = <<>> THEN JStr(<<>>) ELSE OrEmpty(flatValues[1])
      [] r = "last" -> IF flatValues = <<>> THEN JStr(<<>>)
                       ELSE OrEmpty(flatValues[Len(flatValues)])
      [] r = "json" -> JStr(JsonText(JArr(flatValues)))
      [] OTHER -> JStr(Join(JoinTextList(flatValues), separator))

\* (typeof value === 'object' && value !== null) ? JSON.stringify(value) : (value ?? '')
PlainCell(val) ==
    IF val.t \in {"obj", "arr"} THEN JStr(JsonText(val)) ELSE OrEmpty(val)

\* the cell flattenTour stores for one path, given the resolved value
CellOf(pth, val, r, separator) ==
    IF IncludesBrackets(pth)
    THEN IF ~IsArray(val) THEN OrEmpty(val)
         ELSE ApplyRule(r, FlatValues(val), separator)
    ELSE PlainCell(val)

\* flattenTour(data, selectedPaths, rule, separator): the record as a function
\* from the selected paths to their cells, or Thrown when a resolution raises
flattenTour(data, selectedPaths, r, separator) ==
    IF \E i \in DOMAIN selectedPaths : getValueByPath(data, selectedPaths[i]) = Thrown
    THEN Thrown
    ELSE [t |-> "record",
          cells |-> [p \in Range(selectedPaths) |->
                        CellOf(p, getValueByPath(data, p), r, separator)]]

\* the flattenTour of utils/schema.ts: no rule, sequences are always joined,
\* and the paths are resolved by the getValueByPath of that file
CellOfJoin(pth, val, arraySeparator) ==
    IF IncludesBrackets(pth)
    THEN IF IsArray(val) THEN JStr(Join(JoinTextList(FlatValues(val)), arraySeparator))
         ELSE OrEmpty(val)
    ELSE PlainCell(val)

flattenTourJoin(data, selectedPaths, arraySeparator) ==
    IF \E i \in DOMAIN selectedPaths : getValueByPathMap(data, selectedPaths[i]) = Thrown
    THEN Thrown
    ELSE [t |-> "record",
          cells |-> [p \in Range(selectedPaths) |->
                        CellOfJoin(p, getValueByPathMap(data, p), arraySeparator)]]

----------------------------------------------------------------------------
(* Numbers: the doubles of the sampling step.  A positive double is the    *)
(* record [bits |-> <<b1, ..., bn>>, frac |-> f]: the binary digits of its *)
(* significand, most significant first, of which the last f stand after    *)
(* the binary point.  Zero has no digits.                                  *)

\* the digits of the significand of a JavaScript number
MANTISSA_BITS == 53

\* the digits of an array length
LENGTH_BITS == 32

\* the digits the product is carried over at a time
LIMB_BITS == LENGTH_BITS \div 2

\* the digits without the leading zeros
StripZeros(bits) ==
    IF \A k \in DOMAIN bits : bits[k] = 0 THEN <<>>
    ELSE LET first == CHOOSE k \in DOMAIN bits :
                          bits[k] = 1 /\ \A j \in 1..(k - 1) : bits[j] = 0
         IN SubSeq(bits, first, Len(bits))

\* the last `width` binary digits of a natural number
FixedBits(n, width) == [k \in 1..width |-> (n \div (2 ^ (width - k))) % 2]

\* the binary digits of a natural number
BitsOf(n) == StripZeros(FixedBits(n, LENGTH_BITS - 1))

\* the natural number of the binary digits
RECURSIVE BitsValue(_)
BitsValue(bits) ==
    IF bits = <<>> THEN 0
    ELSE IF Len(bits) = 1 THEN bits[1]
    ELSE LET half == Len(bits) \div 2
         IN BitsValue(SubSeq(bits, 1, half)) * (2 ^ (Len(bits) - half))
                + BitsValue(SubSeq(bits, half + 1, Len(bits)))

\* the digits of the number plus one
Increment(bits) ==
    IF \A k \in DOMAIN bits : bits[k] = 1 THEN <<1>> \o [k \in DOMAIN bits |-> 0]
    ELSE LET last == CHOOSE k \in DOMAIN bits :
                         bits[k] = 0 /\ \A j \in (k + 1)..Len(bits) : bits[j] = 1
         IN [k \in DOMAIN bits |-> IF k < last THEN bits[k] ELSE IF k = last THEN 1 ELSE 0]

\* 2^k modulo d
RECURSIVE Pow2Mod(_, _)
Pow2Mod(k, d) ==
    IF k = 0 THEN 1 % d
    ELSE LET half == Pow2Mod(k \div 2, d)
         IN (((half * half) % d) * (IF k % 2 = 1 THEN 2 ELSE 1)) % d

\* round to nearest, ties to even: the exact digits (with more value below
\* the last of them when sticky) cut to MANTISSA_BITS significant digits
RoundToDouble(exact, frac, sticky) ==
    LET bits == StripZeros(exact)
        dropped == Len(bits) - MANTISSA_BITS
    IN IF dropped <= 0 THEN [bits |-> bits, frac |-> frac]
       ELSE LET kept == SubSeq(bits, 1, MANTISSA_BITS)
                guard == bits[MANTISSA_BITS + 1]
                below == sticky \/ \E k \in (MANTISSA_BITS + 2)..Len(bits) : bits[k] = 1
                up == guard = 1 /\ (below \/ kept[MANTISSA_BITS] = 1)
            IN [bits |-> IF up THEN Increment(kept) ELSE kept, frac |-> frac - dropped]

\* n / d of two positive integers, as the division of doubles gives it: the
\* digits of the integer part, then the digits of the long division of the
\* remainder, rounded
Divide(n, d) ==
    LET digits == MANTISSA_BITS + 1 + LENGTH_BITS
        rem == [k \in 0..digits |-> ((n % d) * Pow2Mod(k, d)) % d]
        fraction == [k \in 1..digits |-> IF 2 * rem[k - 1] >= d THEN 1 ELSE 0]
    IN RoundToDouble(BitsOf(n \div d) \o fraction, digits, rem[digits] # 0)

\* the digits of the number times the natural number i, one limb of
\* LIMB_BITS digits at a time from the least significant
MulSmall(bits, i) ==
    LET limbs == (Len(bits) + LIMB_BITS - 1) \div LIMB_BITS
        padded == [k \in 1..(limbs * LIMB_BITS - Len(bits)) |-> 0] \o bits
        limb(m) == BitsValue(SubSeq(padded, (limbs - m) * LIMB_BITS + 1,
                                    (limbs - m + 1) * LIMB_BITS))
        carry[m \in 0..limbs] ==
            IF m = 0 THEN 0 ELSE (limb(m) * i + carry[m - 1]) \div (2 ^ LIMB_BITS)
        low(m) == FixedBits((limb(m) * i + carry[m - 1]) % (2 ^ LIMB_BITS), LIMB_BITS)
    IN BitsOf(carry[limbs])
           \o [k \in 1..(limbs * LIMB_BITS) |->
                  low(limbs - ((k - 1) \div LIMB_BITS))[((k - 1) % LIMB_BITS) + 1]]

\* i * x of a natural number and a double, as the product of doubles gives it
Multiply(i, x) == RoundToDouble(MulSmall(x.bits, i), x.frac, FALSE)

\* Math.floor(x)
MathFloor(x) == BitsValue(SubSeq(x.bits, 1, Len(x.bits) - x.frac))

\* Math.round(x): the nearest integer, the upper one of two
MathRound(x) ==
    MathFloor(x) + (IF Len(x.bits) - x.frac + 1 \in DOMAIN x.bits
                    THEN x.bits[Len(x.bits) - x.frac + 1] ELSE 0)

\* Math.min(100, Math.round((done / total) * 100))
Progress(done, total) ==
    LET rounded == MathRound(Multiply(100, Divide(done, total)))
    IN IF rounded < 100 THEN rounded ELSE 100

\* mutant: the counters are set to the size of the chunk
OrZero_Restart(prev) == 0

\* prev || 0
OrZero(prev) == IF Falsy(prev) THEN 0 ELSE prev.n

----------------------------------------------------------------------------
(* Breadcrumb filter (utils/breadcrumb.ts) *)

QUERIES == <<"q", "u", "e", "r", "i", "e", "s">>
GET_COMM_BREADCRUMB ==
    <<"g", "e", "t", "C", "o", "m", "m", "B", "r", "e", "a", "d", "c", "r", "u", "m", "b">>
DATA == <<"d", "a", "t", "a">>
CODE == <<"c", "o", "d", "e">>
NAME == <<"n", "a", "m", "e">>
UNDEFINED_TEXT == <<"u", "n", "d", "e", "f", "i", "n", "e", "d">>

\* useState('queries.getCommBreadcrumb')
DefaultSourcePath == QUERIES \o DOT \o GET_COMM_BREADCRUMB

JBool(b) == [t |-> "bool", b |-> b]

\* s.includes(sub)
Includes(s, sub) ==
    \E i \in 1..(Len(s) - Len(sub) + 1) : SubSeq(s, i, i + Len(sub) - 1) = sub

\* v?.key
OptGet(v, key) == IF IsNullish(v) THEN Undefined ELSE PropGet(v, key)

\* String(v)
StringOf(v) ==
    CASE v.t = "undefined" -> UNDEFINED_TEXT
      [] v.t = "null" -> <<"n", "u", "l", "l">>
      [] OTHER -> JoinText(v)

\* dataChain[i], for the 0-based index i
ChainAt(dataChain, i) == IF i + 1 \in DOMAIN dataChain THEN dataChain[i + 1] ELSE Undefined

\* the for loop of checkMatch from the 0-based index i
RECURSIVE CheckFrom(_, _, _)
\* mutant: an empty selected code is compared like any other
CheckFrom_EmptyRejects(dataChain, codes, i) ==
    IF i >= Len(codes) THEN TRUE
    ELSE LET codeToMatch == codes[i + 1]
             node == ChainAt(dataChain, i)
         IN IF Falsy(node) THEN FALSE
            ELSE IF StringOf(PropGet(node, CODE)) # codeToMatch THEN FALSE
            ELSE CheckFrom(dataChain, codes, i + 1)

CheckFrom(dataChain, codes, i) ==
    IF i >= Len(codes) THEN TRUE
    ELSE LET codeToMatch == codes[i + 1]
             node == ChainAt(dataChain, i)
         IN IF codeToMatch = EMPTY THEN CheckFrom(dataChain, codes, i + 1)
            ELSE IF Falsy(node) THEN FALSE
            ELSE IF StringOf(PropGet(node, CODE)) # codeToMatch THEN FALSE
            ELSE CheckFrom(dataChain, codes, i + 1)

checkMatch(dataChain, codes) == CheckFrom(dataChain, codes, 0)

\* breadcrumbs.some(b => { const data = b?.data; Array.isArray(data) && checkMatch(data, codes) })
SomeChainMatches(breadcrumbs, codes) ==
    \E i \in DOMAIN breadcrumbs :
        LET data == OptGet(breadcrumbs[i], DATA)
        IN IsArray(data) /\ checkMatch(data.el, codes)

\* matchBreadcrumb(content, sourcePath, selectedCodes): a boolean, or Thrown
\* when getValueByPath raises
\* mutant: only the selection of no code at all passes every document
matchBreadcrumb_EmptyListOnly(content, srcPath, codes) ==
    IF Len(codes) = 0 THEN JBool(TRUE)
    ELSE IF Includes(srcPath, GET_COMM_BREADCRUMB)
    THEN LET breadcrumbs == OptGet(OptGet(content, QUERIES), GET_COMM_BREADCRUMB)
         IN IF ~IsArray(breadcrumbs) THEN JBool(FALSE)
            ELSE JBool(SomeChainMatches(breadcrumbs.el, codes))
    ELSE LET targetData == getValueByPath(content, srcPath)
         IN IF targetData = Thrown THEN Thrown
            ELSE IF IsArray(targetData) THEN JBool(checkMatch(targetData.el, codes))
            ELSE JBool(FALSE)

matchBreadcrumb(content, srcPath, codes) ==
    IF Len(codes) = 0 \/ \A i \in DOMAIN codes : codes[i] = EMPTY THEN JBool(TRUE)
    ELSE IF Includes(srcPath, GET_COMM_BREADCRUMB)
    THEN LET breadcrumbs == OptGet(OptGet(content, QUERIES), GET_COMM_BREADCRUMB)
         IN IF ~IsArray(breadcrumbs) THEN JBool(FALSE)
            ELSE JBool(SomeChainMatches(breadcrumbs.el, codes))
    ELSE LET targetData == getValueByPath(content, srcPath)
         IN IF targetData = Thrown THEN Thrown
            ELSE IF IsArray(targetData) THEN JBool(checkMatch(targetData.el, codes))
            ELSE JBool(FALSE)

\* a Map of options: the options in insertion order
JMap(options) == [t |-> "map", options |-> options]

\* an option of a level: { code, name, children: new Map() }
Option(code, name, children) == [code |-> code, name |-> name, children |-> children]

\* the position in the level of the option with that code, 0 when
\* !currentLevel.has(code)
LevelIndex(level, code) ==
    IF \E i \in DOMAIN level.options : level.options[i].code = code
    THEN CHOOSE i \in DOMAIN level.options : level.options[i].code = code
    ELSE 0

\* addToTree(tree, pathChain): the level after the chain was added
RECURSIVE addToTree(_, _)
addToTree(level, pathChain) ==
    IF pathChain = <<>> THEN level
    ELSE LET node == Head(pathChain)
         IN IF Falsy(node) \/ Falsy(PropGet(node, CODE))
            THEN addToTree(level, Tail(pathChain))
            ELSE LET code == StringOf(PropGet(node, CODE))
                     name == IF Falsy(PropGet(node, NAME)) THEN JStr(code)
                             ELSE PropGet(node, NAME)
                     withCode == IF LevelIndex(level, code) = 0
                                 THEN JMap(Append(level.options, Option(code, name, JMap(<<>>))))
                                 ELSE level
                     i == LevelIndex(withCode, code)
                 IN [withCode EXCEPT !.options[i].children = addToTree(@, Tail(pathChain))]

\* breadcrumbs.forEach(b => { if (Array.isArray(b.data)) addToTree(tree, b.data) }):
\* b.data raises on an entry that is null
RECURSIVE AddEntries(_, _)
AddEntries(tree, breadcrumbs) ==
    IF breadcrumbs = <<>> THEN tree
    ELSE LET data == PropGet(Head(breadcrumbs), DATA)
         IN IF data = Thrown THEN Thrown
            ELSE IF IsArray(data)
            THEN AddEntries(addToTree(tree, data.el), Tail(breadcrumbs))
            ELSE AddEntries(tree, Tail(breadcrumbs))

\* the body of files.forEach in buildBreadcrumbTree: the tree after one file
\* (file.file is the File object of the picker, always truthy)
ScanFile(tree, file, srcPath) ==
    LET content == file.content
    IN IF Falsy(content) THEN tree
       ELSE IF Includes(srcPath, GET_COMM_BREADCRUMB)
       THEN LET breadcrumbs == OptGet(OptGet(content, QUERIES), GET_COMM_BREADCRUMB)
            IN IF IsArray(breadcrumbs) THEN AddEntries(tree, breadcrumbs.el) ELSE tree
       ELSE LET targetData == getValueByPath(content, srcPath)
            IN IF targetData = Thrown THEN Thrown
               ELSE IF IsArray(targetData) THEN addToTree(tree, targetData.el)
               ELSE tree

RECURSIVE ScanFiles(_, _, _)
ScanFiles(tree, fileList, srcPath) ==
    IF fileList = <<>> THEN tree
    ELSE LET next == ScanFile(tree, Head(fileList), srcPath)
         IN IF next = Thrown THEN Thrown
            ELSE ScanFiles(next, Tail(fileList), srcPath)

\* buildBreadcrumbTree(files, sourcePath): the tree, or Thrown when the scan raises
buildBreadcrumbTree(fileList, srcPath) == ScanFiles(JMap(<<>>), fileList, srcPath)

\* files.filter(f => f.isAvailable)
Available(fileList) == SelectSeq(fileList, LAMBDA f : f.isAvailable)

\* ExportSettings.levels: the option lists of the dropdowns shown, the first
\* level when the tree has options, then one level for every selected code
\* whose option has children
RECURSIVE LevelsFrom(_, _, _)
LevelsFrom(currentOptions, codes, i) ==
    IF i > Len(codes) THEN <<>>
    ELSE IF Falsy(JStr(codes[i])) THEN <<>>
    ELSE LET hits == {k \in DOMAIN currentOptions : currentOptions[k].code = codes[i]}
         IN IF hits = {} THEN <<>>
            ELSE LET selectedNode == currentOptions[CHOOSE k \in hits : \A m \in hits : k <= m]
                 IN IF Len(selectedNode.children.options) > 0
                    THEN <<selectedNode.children.options>>
                             \o LevelsFrom(selectedNode.children.options, codes, i + 1)
                    ELSE <<>>

levels(tree, codes) ==
    (IF Len(tree.options) > 0 THEN <<tree.options>> ELSE <<>>)
        \o LevelsFrom(tree.options, codes, 1)

\* handleLevelChange(levelIndex, newValue): newPath[levelIndex] = newValue,
\* then newPath.slice(0, levelIndex + 1); an index past the end leaves holes
\* mutant: the deeper selections are kept
handleLevelChange_KeepsDeeper(codes, index, newValue) ==
    [k \in 1..(IF index + 1 > Len(codes) THEN index + 1 ELSE Len(codes)) |->
        IF k = index + 1 THEN newValue
        ELSE IF k <= Len(codes) THEN codes[k] ELSE Undefined]

handleLevelChange(codes, index, newValue) ==
    [k \in 1..(index + 1) |->
        IF k = index + 1 THEN newValue
        ELSE IF k <= Len(codes) THEN codes[k] ELSE Undefined]

----------------------------------------------------------------------------
(* The application: picking files and exporting them (App.tsx,            *)
(* components/SourcePicker.tsx, components/ExportPanel.tsx)                *)

TOUR_ID == <<"T", "o", "u", "r", "I", "D">>
UNKNOWN == <<"U", "N", "K", "N", "O", "W", "N">>
E_EXPORT_FAILED ==
    <<"E", "_", "E", "X", "P", "O", "R", "T", "_", "F", "A", "I", "L", "E", "D">>
ALL == <<"A", "L", "L">>

\* the files handed over per round of the export loop; the code uses 50
CHUNK_SIZE == 2

\* JSON.parse(text) over the values of a universe: the value whose JSON text
\* it is, Thrown (a SyntaxError) when it is the text of none
JSONParse(text, universe) ==
    IF \E v \in universe : JsonText(v) = text
    THEN CHOOSE v \in universe : JsonText(v) = text
    ELSE Thrown

\* s.toLowerCase(), over the letters the inputs use
LowerChar(c) ==
    CASE c = "A" -> "a" [] c = "B" -> "b" [] c = "X" -> "x" [] c = "Y" -> "y"
      [] c = "U" -> "u" [] c = "N" -> "n" [] c = "K" -> "k" [] c = "O" -> "o"
      [] c = "W" -> "w" [] OTHER -> c

ToLowerCase(chars) == [i \in DOMAIN chars |-> LowerChar(chars[i])]

\* a row of the export: the cells of the selected paths and the two columns
\* the export adds
Row(cells, tourId, sourceFile) ==
    [t |-> "row", cells |-> cells, TourID_Meta |-> tourId, SourceFile |-> sourceFile]

\* the values of a row, as text
RowTexts(item) ==
    {StringOf(item.cells[p]) : p \in DOMAIN item.cells}
        \cup {StringOf(item.TourID_Meta), item.SourceFile}

\* the match predicate of the keyword filter on one text
KeywordHits(text, keyword, mode, caseSensitive) ==
    LET t == IF caseSensitive THEN text ELSE ToLowerCase(text)
        k == IF caseSensitive THEN keyword ELSE ToLowerCase(keyword)
    IN IF mode = "equals" THEN t = k ELSE Includes(t, k)

\* filterFlattenedData(item, keyword, column, mode, caseSensitive): an empty
\* keyword passes every row; a column is the row's value of that column, ALL
\* is any value of the row
filterFlattenedData(item, keyword, column, mode, caseSensitive) ==
    IF keyword = EMPTY THEN TRUE
    ELSE IF column = ALL
    THEN \E text \in RowTexts(item) : KeywordHits(text, keyword, mode, caseSensitive)
    ELSE /\ column \in DOMAIN item.cells
         /\ KeywordHits(StringOf(item.cells[column]), keyword, mode, caseSensitive)

\* breadcrumbPath[0] is truthy
FirstCodeChosen(codes) == codes # <<>> /\ codes[1] # EMPTY

\* content.TourID || 'UNKNOWN'
TourIdOf(content) ==
    IF Falsy(PropGet(content, TOUR_ID)) THEN JStr(UNKNOWN) ELSE PropGet(content, TOUR_ID)

\* the callback of chunk.map in App.handleExport: the row of the file, or
\* null when the file is filtered out by the breadcrumb filter and when
\* anything raises (the catch logs and returns null)
ProcessFile(f, universe, ftype, codes, src, paths, r) ==
    LET content == IF Falsy(f.content) THEN JSONParse(f.text, universe) ELSE f.content
        hit == IF ftype = "breadcrumb" /\ FirstCodeChosen(codes)
               THEN matchBreadcrumb(content, src, codes) ELSE JBool(TRUE)
        flattened == flattenTour(content, paths, r, DefaultSeparator)
    IN IF content = Thrown THEN JNull
       ELSE IF hit = Thrown \/ hit = JBool(FALSE) THEN JNull
       ELSE IF flattened = Thrown THEN JNull
       ELSE IF IsNullish(content) THEN JNull
       ELSE Row(flattened.cells, TourIdOf(content), f.name)

\* a promise of the chunk that has not settled
Unsettled == [t |-> "pending"]

\* Promise.all: the result of the k-th promise of the chunk goes to place k
\* mutant: results are stored in the order the promises settle
Settle_InCompletionOrder(chunkResults, k, result) ==
    LET free == {j \in DOMAIN chunkResults : chunkResults[j] = Unsettled}
    IN [chunkResults EXCEPT ![CHOOSE j \in free : \A h \in free : j <= h] = result]

Settle(chunkResults, k, result) == [chunkResults EXCEPT ![k] = result]

\* parsable.slice(i, i + CHUNK_SIZE), as the positions in parsable
ChunkAt(parsable, i) == {k \in DOMAIN parsable : i < k /\ k <= i + CHUNK_SIZE}

\* the files of a chunk whose callback waits for file.text()
ReadsText(parsable, i) == {k \in ChunkAt(parsable, i) : Falsy(parsable[k].content)}

\* processedChunk.filter(item => item && (filterType !== 'keyword' || filterFlattenedData(item, ...)))
ValidItems(chunkResults, ftype, keyword) ==
    SelectSeq(chunkResults,
              LAMBDA item : /\ item # JNull
                            /\ (ftype = "keyword" =>
                                   filterFlattenedData(item, keyword, ALL, "contains", FALSE)))

\* the cap of the schema sample
MAX_SCHEMA_SAMPLES == 1000

\* the file passes the breadcrumb filter of the schema memo: a boolean, or
\* Thrown when matchBreadcrumb raises
ShouldInclude(f, ftype, codes, src) ==
    IF ftype = "breadcrumb" /\ FirstCodeChosen(codes)
    THEN matchBreadcrumb(f.content, src, codes)
    ELSE JBool(TRUE)

\* matches: the contents of the available, parsed files that pass the filter
Matches(fileList, ftype, codes, src) ==
    LET kept == SelectSeq(fileList,
                          LAMBDA f : /\ f.isAvailable
                                     /\ ~Falsy(f.content)
                                     /\ ShouldInclude(f, ftype, codes, src) = JBool(TRUE))
    IN [i \in DOMAIN kept |-> kept[i].content]

\* const step = matches.length / MAX_SCHEMA_SAMPLES; Math.floor(i * step)
SampleIndex(i, length) == MathFloor(Multiply(i, Divide(length, MAX_SCHEMA_SAMPLES)))

\* samples: all matches up to the cap, beyond it the truthy ones among the
\* matches at the indices Math.floor(i * step)
Samples(matches) ==
    IF Len(matches) > MAX_SCHEMA_SAMPLES
    THEN SelectSeq([i \in 1..MAX_SCHEMA_SAMPLES |->
                       matches[SampleIndex(i - 1, Len(matches)) + 1]],
                   LAMBDA m : ~Falsy(m))
    ELSE matches

\* merged = buildSchemaTree(samples[0]), then mergeSchemaTrees(merged,
\* buildSchemaTree(content)) for the rest
RECURSIVE MergeSamples(_, _)
MergeSamples(tree, samples) ==
    IF samples = <<>> THEN tree
    ELSE MergeSamples(mergeSchemaTrees(tree, InferTree(Head(samples))), Tail(samples))

\* App.schemaTree: NoTree is null; Thrown when the filter raises
AppSchemaTree(fileList, ftype, codes, src) ==
    IF \E i \in DOMAIN fileList :
          /\ fileList[i].isAvailable /\ ~Falsy(fileList[i].content)
          /\ ShouldInclude(fileList[i], ftype, codes, src) = Thrown
    THEN Thrown
    ELSE LET samples == Samples(Matches(fileList, ftype, codes, src))
         IN IF samples = <<>> THEN NoTree
            ELSE MergeSamples(InferTree(Head(samples)), Tail(samples))

\* paths.filter(p => allLeafPaths.includes(p))
ValidPaths(paths, allLeafPaths) == SelectSeq(paths, LAMBDA q : q \in Range(allLeafPaths))

\* the effect on [schemaTree]: the selection after the schema tree changed
SyncSelection(tree, selected, saved) ==
    IF tree = NoTree \/ tree = Thrown THEN selected
    ELSE LET allLeafPaths == getAllLeafPaths(tree)
         IN IF saved # <<>> /\ selected = <<>> /\ ValidPaths(saved, allLeafPaths) # <<>>
            THEN ValidPaths(saved, allLeafPaths)
            ELSE IF selected # <<>>
            THEN IF Len(ValidPaths(selected, allLeafPaths)) # Len(selected)
                 THEN IF ValidPaths(selected, allLeafPaths) = <<>> THEN allLeafPaths
                      ELSE ValidPaths(selected, allLeafPaths)
                 ELSE selected
            ELSE allLeafPaths

\* the effect on [selectedPaths]: localStorage keeps the last non-empty selection
SavedAfter(selected, saved) == IF selected # <<>> THEN selected ELSE saved

\* allPaths.indexOf(p)
IndexOf(seq, x) ==
    IF \E i \in DOMAIN seq : seq[i] = x
    THEN (CHOOSE i \in DOMAIN seq : seq[i] = x /\ \A j \in 1..(i - 1) : seq[j] # x) - 1
    ELSE -1

\* the insertion of x after the last element whose key is not greater
RECURSIVE InsertByIndex(_, _, _)
InsertByIndex(sorted, x, allPaths) ==
    IF sorted = <<>> THEN <<x>>
    ELSE IF IndexOf(allPaths, sorted[Len(sorted)]) <= IndexOf(allPaths, x)
    THEN Append(sorted, x)
    ELSE Append(InsertByIndex(SubSeq(sorted, 1, Len(sorted) - 1), x, allPaths),
                sorted[Len(sorted)])

\* [...paths].sort((a, b) => allPaths.indexOf(a) - allPaths.indexOf(b)), a stable sort
RECURSIVE SortByIndex(_, _)
SortByIndex(paths, allPaths) ==
    IF paths = <<>> THEN <<>>
    ELSE InsertByIndex(SortByIndex(SubSeq(paths, 1, Len(paths) - 1), allPaths),
                       paths[Len(paths)], allPaths)

\* sortPaths(paths)
\* mutant: the paths are returned in the order they were handed in
sortPaths_AsGiven(paths, tree) == paths

sortPaths(paths, tree) ==
    IF tree = NoTree THEN paths ELSE SortByIndex(paths, getAllLeafPaths(tree))

\* handleTogglePath(path, included): the next selection
handleTogglePath(prev, pth, included, tree) ==
    sortPaths(IF included THEN Append(prev, pth) ELSE SelectSeq(prev, LAMBDA q : q # pth),
              tree)

\* handleToggleBatch(paths, included): the next selection
handleToggleBatch(prev, paths, included, tree) ==
    LET filtered == SelectSeq(prev, LAMBDA q : q \notin Range(paths))
    IN sortPaths(IF included THEN filtered \o paths ELSE filtered, tree)

\* the nodes the tree renders a checkbox for: every node but the root
RECURSIVE NodesOf(_)
NodesOf(node) ==
    (IF node.name # ROOT THEN {node} ELSE {})
        \cup UNION {NodesOf(node.children[i]) : i \in DOMAIN node.children}

\* the name of the i-th picked file
FileName(i) == <<"f">> \o NumToStr(i)

\* SourcePicker.handleFileChange: one file record per picked text
\* mutant: a file whose text does not parse is kept available
handleFileChange_KeepsUnparsed(texts, universe) ==
    [i \in DOMAIN texts |->
        [name |-> FileName(i), isAvailable |-> TRUE,
         content |-> IF JSONParse(texts[i], universe) = Thrown THEN Undefined
                     ELSE JSONParse(texts[i], universe),
         text |-> texts[i]]]

handleFileChange(texts, universe) ==
    [i \in DOMAIN texts |->
        IF JSONParse(texts[i], universe) = Thrown
        THEN [name |-> FileName(i), isAvailable |-> FALSE, content |-> Undefined,
              text |-> texts[i]]
        ELSE [name |-> FileName(i), isAvailable |-> TRUE,
              content |-> JSONParse(texts[i], universe), text |-> texts[i]]]

\* a row of ExportPanel: the cells and the columns TourID_Source and
\* SourceFile (ExportedAt, the time of the export, is left out)
PanelRow(cells, tourId, sourceFile) ==
    [t |-> "row", cells |-> cells, TourID_Source |-> tourId, SourceFile |-> sourceFile]

\* { tour_id, source_file, error_code: 'E_EXPORT_FAILED', message }
FailureEntry(tourId, sourceFile, message) ==
    [tour_id |-> tourId, source_file |-> sourceFile, error_code |-> E_EXPORT_FAILED,
     message |-> message]

\* fileInfo.content?.TourID || 'UNKNOWN'
TourIdOrUnknown(content) ==
    IF Falsy(OptGet(content, TOUR_ID)) THEN JStr(UNKNOWN) ELSE OptGet(content, TOUR_ID)

\* the try block of ExportPanel.handleExport raises on this file
PanelRaises(fileInfo, paths, arraySeparator) ==
    \/ flattenTourJoin(fileInfo.content, paths, arraySeparator) = Thrown
    \/ IsNullish(fileInfo.content)

\* files.forEach of ExportPanel.handleExport: the success and failures lists
RECURSIVE PanelFold(_, _, _, _)
PanelFold(fileList, paths, arraySeparator, lists) ==
    IF fileList = <<>> THEN lists
    ELSE LET fileInfo == Head(fileList)
             next ==
                 IF PanelRaises(fileInfo, paths, arraySeparator)
                 THEN [lists EXCEPT !.failures =
                          Append(@, FailureEntry(TourIdOrUnknown(fileInfo.content),
                                                 fileInfo.name, "TypeError"))]
                 ELSE [lists EXCEPT !.success =
                          Append(@, PanelRow(
                              flattenTourJoin(fileInfo.content, paths, arraySeparator).cells,
                              TourIdOf(fileInfo.content), fileInfo.name))]
         IN PanelFold(Tail(fileList), paths, arraySeparator, next)

----------------------------------------------------------------------------
(* Input universe *)

MaxNodes == 4
MaxLen == 2

KeyA == <<"a">>
KeyB == <<"b">>
Keys == {KeyA, KeyB}
Scalars == {JNull, JStr(<<"x">>), JNum(0)}

\* the key lists of the objects of the universe, in insertion order
KeyLists == {<<KeyA>>, <<KeyA, KeyB>>}

RECURSIVE ChildLists(_, _, _)

\* the lists of exactly len values whose node counts add up to total, drawn
\* from bySize, where bySize[k] holds the values of k nodes
ChildLists(bySize, len, total) ==
    IF len = 0 THEN (IF total = 0 THEN {<<>>} ELSE {})
    ELSE UNION {{<<v>> \o rest : v \in bySize[k], rest \in ChildLists(bySize, len - 1, total - k)}
                : k \in 1..(total - (len - 1))}

ZipEntries(keys, vals) == [i \in DOMAIN keys |-> Entry(keys[i], vals[i])]

\* the arrays of n nodes, given the values of fewer nodes
ArraysOfSize(bySize, n) ==
    UNION {{JArr(els) : els \in ChildLists(bySize, len, n - 1)} : len \in 1..MaxLen}

ObjectsOfSize(bySize, n) ==
    UNION {{JObj(ZipEntries(keys, vals)) : vals \in ChildLists(bySize, Len(keys), n - 1)}
           : keys \in KeyLists}

\* <<the values of 1 node, ..., the values of n nodes>>
RECURSIVE SizeTable(_)
SizeTable(n) ==
    IF n = 0 THEN <<>>
    ELSE LET smaller == SizeTable(n - 1)
         IN Append(smaller,
                   IF n = 1 THEN Scalars \cup {JObj(<<>>), JArr(<<>>)}
                   ELSE ArraysOfSize(smaller, n) \cup ObjectsOfSize(smaller, n))

ValuesUpTo(n) == LET bySize == SizeTable(n) IN UNION {bySize[k] : k \in 1..n}

\* the corpus documents of the merge fold: objects of at most MaxMergeNodes nodes
MaxMergeNodes == 3
MaxMerge == 3
MergeDocs == {d \in ValuesUpTo(MaxMergeNodes) : d.t = "obj"}

\* documents with a key that holds a dot or is empty, and documents with
\* plain keys that spell the same paths
DottedDocs ==
    {JObj(<<Entry(KeyA \o DOT \o KeyB, JNum(0))>>),
     JObj(<<Entry(KeyA, JObj(<<Entry(KeyB, JNum(0))>>))>>),
     JObj(<<Entry(KeyA, JObj(<<Entry(KeyB, JNum(0))>>)), Entry(KeyA \o DOT \o KeyB, JNum(0))>>),
     JObj(<<Entry(EMPTY, JNum(0))>>)}

\* the documents whose node paths are compared
PathDocs == MergeDocs \cup DottedDocs

\* the documents the schema operations are run on, one after the other: a
\* text, an object in an object, an array of objects that differ, and a
\* document that gives the same field another type
HeapDocs ==
    {JObj(<<Entry(KeyA, JStr(<<"x">>))>>),
     JObj(<<Entry(KeyA, JObj(<<Entry(KeyB, JNum(0))>>))>>),
     JObj(<<Entry(KeyA, JArr(<<JObj(<<Entry(KeyA, JNum(0))>>),
                               JObj(<<Entry(KeyA, JObj(<<>>)), Entry(KeyB, JNull)>>)>>))>>),
     JObj(<<Entry(KeyB, JArr(<<>>)), Entry(KeyA, JNull)>>)}

\* the number of calls of a run
MaxCalls == 3

\* arrays of objects of at most MaxArrayNodes nodes
MaxArrayNodes == 6
\* <<the objects of 1 node, ..., the objects of n nodes>>
RECURSIVE ObjectTable(_)
ObjectTable(n) ==
    IF n = 0 THEN <<>>
    ELSE Append(ObjectTable(n - 1),
                IF n = 1 THEN {JObj(<<>>)} ELSE ObjectsOfSize(SizeTable(n - 1), n))

ArrayDocs(n) ==
    LET objects == ObjectTable(n - 1)
    IN UNION {ArraysOfSize(objects, k) : k \in 2..n}

\* documents {a: [day, ...]} whose days are {} or {b: [{a: name}, ...]}: two
\* array levels, of at most n elements each
NameItems == {JObj(<<Entry(KeyA, nm)>>) : nm \in {JStr(<<"x">>), JNum(0)}}

SeqsUpTo(S, n) == UNION {[1..k -> S] : k \in 0..n}

DaysOf(n) == {JObj(<<Entry(KeyB, JArr(items))>>) : items \in SeqsUpTo(NameItems, n)}
                 \cup {JObj(<<>>)}

NestedDocs(n) == {JObj(<<Entry(KeyA, JArr(days))>>) : days \in SeqsUpTo(DaysOf(n), n) \ {<<>>}}

\* the path a[].b[].a of the names
NestedPath == KeyA \o BRACKETS \o DOT \o KeyB \o BRACKETS \o DOT \o KeyA

\* breadcrumb nodes: {code: "1", name: "A"}, {code: "1", name: "B"}, and
\* {code: 2} with a numeric code and no name
CrumbNodes ==
    {JObj(<<Entry(CODE, JStr(<<"1">>)), Entry(NAME, JStr(<<"A">>))>>),
     JObj(<<Entry(CODE, JStr(<<"1">>)), Entry(NAME, JStr(<<"B">>))>>),
     JObj(<<Entry(CODE, JNum(2))>>)}

\* the entries of a chain handed to checkMatch: a node with a string code, a
\* node with a numeric code, or null
MatchNodes ==
    {JObj(<<Entry(CODE, JStr(<<"1">>)), Entry(NAME, JStr(<<"A">>))>>),
     JObj(<<Entry(CODE, JNum(2))>>),
     JNull}

\* {queries: {getCommBreadcrumb: [{data: chain}, ...]}}
WrapperDoc(chains) ==
    JObj(<<Entry(QUERIES, JObj(<<Entry(GET_COMM_BREADCRUMB,
              JArr([i \in DOMAIN chains |-> JObj(<<Entry(DATA, JArr(chains[i]))>>)]))>>))>>)

\* {a: chain}
ChainDoc(chain) == JObj(<<Entry(KeyA, JArr(chain))>>)

\* documents that hold no chain where the filter looks for one
ChainlessDocs ==
    {JNull, JObj(<<>>), JStr(<<"x">>), JObj(<<Entry(QUERIES, JNull)>>),
     JObj(<<Entry(QUERIES, JObj(<<Entry(GET_COMM_BREADCRUMB, JNull)>>))>>),
     JObj(<<Entry(QUERIES, JObj(<<Entry(GET_COMM_BREADCRUMB, JArr(<<JNull>>))>>))>>),
     JObj(<<Entry(KeyA, JNull)>>)}

\* a selected code: none, "1" or "2"
CodeChoices == {EMPTY, <<"1">>, <<"2">>}

\* the longest chain and the longest selection
MaxChain == 3

\* documents with one chain of at most n nodes, under the query wrapper or at the key a
MatchDocs(n) ==
    {WrapperDoc(<<chain>>) : chain \in SeqsUpTo(MatchNodes, n)}
        \cup {ChainDoc(chain) : chain \in SeqsUpTo(MatchNodes, n)}
        \cup ChainlessDocs

\* {queries: {getCommBreadcrumb: entries}}
WrapperOf(entries) ==
    JObj(<<Entry(QUERIES, JObj(<<Entry(GET_COMM_BREADCRUMB, JArr(entries))>>))>>)

\* the chains of the documents that hold several: nodes with a code only
ShortChains(n) ==
    SeqsUpTo({JObj(<<Entry(CODE, JStr(<<"1">>))>>), JObj(<<Entry(CODE, JNum(2))>>)}, n)

\* an entry of the wrapper array: {data: chain}, or null
WrapperEntries(n) == {JObj(<<Entry(DATA, JArr(chain))>>) : chain \in ShortChains(n)} \cup {JNull}

\* documents with up to n wrapper entries, documents {a: chain}, and
\* documents with no chain
ChainsDocs(n) ==
    {WrapperOf(entries) : entries \in SeqsUpTo(WrapperEntries(n), n)}
        \cup {ChainDoc(chain) : chain \in ShortChains(n)}
        \cup ChainlessDocs

\* the configured source paths: the default, the key a, and a.a[]
SourcePaths == {DefaultSourcePath, KeyA, KeyA \o DOT \o KeyA \o BRACKETS}

\* the longest list of files
MaxFiles == 2

\* SourcePicker: { file, name, isAvailable: true, content }, file.text()
\* being the JSON text of the content
Parsed(content) == [isAvailable |-> TRUE, content |-> content, text |-> JsonText(content)]

\* SourcePicker: { file, name, isAvailable: false }, of a file whose text is
\* not JSON
Unparsable == [isAvailable |-> FALSE, content |-> Undefined, text |-> <<"{">>]

\* the files of a pick, named in the order of the pick
NamedFiles(picked) ==
    [i \in DOMAIN picked |->
        [name |-> FileName(i), isAvailable |-> picked[i].isAvailable,
         content |-> picked[i].content, text |-> picked[i].text]]

\* chains that addToTree shortens: a null node, and a node whose code is 0
SkippingChains ==
    {<<JObj(<<Entry(CODE, JStr(<<"1">>)), Entry(NAME, JStr(<<"A">>))>>), JNull,
       JObj(<<Entry(CODE, JNum(2))>>)>>,
     <<JObj(<<Entry(CODE, JNum(0))>>),
       JObj(<<Entry(CODE, JStr(<<"1">>)), Entry(NAME, JStr(<<"B">>))>>)>>}

\* the contents scanned for the option tree: one chain of at most n nodes
\* under the query wrapper, the shortened chains, a chain at the key a, a
\* wrapper entry that is null or has no data, and contents with no chain
TreeDocs(n) ==
    {WrapperDoc(<<chain>>) : chain \in SeqsUpTo(CrumbNodes, n) \cup SkippingChains}
        \cup {ChainDoc(<<JObj(<<Entry(CODE, JStr(<<"1">>)), Entry(NAME, JStr(<<"B">>))>>)>>),
              WrapperOf(<<JNull>>), WrapperOf(<<JObj(<<>>)>>), JObj(<<>>), JNull}

\* the lists of at most m picked files
FileLists(n, m) ==
    {NamedFiles(picked) :
        picked \in SeqsUpTo({Parsed(d) : d \in TreeDocs(n)} \cup {Unparsable}, m)}

\* the breadcrumb filter before any match
CrumbIdle ==
    /\ sourcePath = DefaultSourcePath
    /\ selectedCodes = <<>>
    /\ matched = Undefined
    /\ levelIndex = -1
    /\ breadcrumbTree = JMap(<<>>)

\* the longest list of files handed to an export
MaxBatch == 3

\* a tour with an identifier, a text, an inner array and one breadcrumb chain
Tour1 ==
    JObj(<<Entry(TOUR_ID, JNum(7)), Entry(KeyA, JStr(<<"x">>)),
           Entry(KeyB, JObj(<<Entry(KeyA, JArr(<<JNum(0)>>))>>)),
           Entry(QUERIES, JObj(<<Entry(GET_COMM_BREADCRUMB,
               JArr(<<JObj(<<Entry(DATA,
                   JArr(<<JObj(<<Entry(CODE, JStr(<<"1">>))>>)>>))>>)>>))>>))>>)

\* a tour with another text, an empty inner array and no breadcrumb
Tour2 ==
    JObj(<<Entry(KeyA, JStr(<<"y">>)), Entry(KeyB, JObj(<<Entry(KeyA, JArr(<<>>))>>))>>)

\* a tour without the object that holds the inner array
Tour3 == JObj(<<Entry(KeyA, JStr(<<"x">>))>>)

\* a tour that holds one breadcrumb chain and nothing else
Tour4 == WrapperDoc(<<<<JObj(<<Entry(CODE, JStr(<<"1">>))>>)>>>>)

\* a tour with three texts, two of them in an inner object
Tour5 ==
    JObj(<<Entry(KeyA, JStr(<<"x">>)),
           Entry(KeyB, JObj(<<Entry(KeyA, JStr(<<"y">>)), Entry(KeyB, JStr(<<"z">>))>>))>>)

\* a tour whose key b.a spells the path of the field a of its object b
Tour6 ==
    JObj(<<Entry(KeyB, JObj(<<Entry(KeyA, JNum(1))>>)),
           Entry(KeyB \o DOT \o KeyA, JNum(2)), Entry(KeyA, JNum(3))>>)

\* the values the texts of the picked files stand for
JsonValues == {Tour1, Tour2, Tour3, Tour4, Tour5, Tour6, JNull}

\* the texts of the files of a pick: tours, null, and two texts that are not JSON
PickTexts == {JsonText(Tour1), JsonText(Tour2), JsonText(Tour3), JsonText(JNull), <<"{">>, <<>>}

\* the texts of the files whose schema is selected from: two small tours,
\* null, and a text that is not JSON
SelectTexts == {JsonText(Tour3), JsonText(Tour4), JsonText(JNull), <<"{">>}

\* what localStorage holds of an earlier session: nothing, a path of the
\* tours, a path of no tour followed by one
SavedChoices == {<<>>, <<KeyA>>, <<KeyB, KeyA>>}

\* the texts of the files whose columns are toggled
ToggleTexts == {JsonText(Tour3), JsonText(Tour5), JsonText(Tour6)}

\* what localStorage holds before the columns are toggled: nothing, or paths
\* of the tours in an order that is not the order of the tree
ToggleSaved ==
    {<<>>, <<KeyB \o DOT \o KeyB, KeyA>>, <<KeyB \o DOT \o KeyB, KeyB \o DOT \o KeyA>>,
     <<KeyA, KeyB \o DOT \o KeyA>>}

\* the numbers of matching documents the schema memo samples from: a few, the
\* cap, and more than the cap
SampleCounts == {1, 2, 3, 999, 1000, 1001, 1005, 1250}

\* the filter settings while the schema is selected from: none, the
\* breadcrumb code 1, the breadcrumb code 2 of no tour
SelectFilters ==
    {[type |-> "keyword", keyword |-> EMPTY, codes |-> <<>>],
     [type |-> "breadcrumb", keyword |-> EMPTY, codes |-> <<<<"1">>>>],
     [type |-> "breadcrumb", keyword |-> EMPTY, codes |-> <<<<"2">>>>]}

\* the columns of the export: a and b.a[]
ExportSelection == <<KeyA, KeyB \o DOT \o KeyA \o BRACKETS>>

\* an available file whose text has not been parsed yet
Lazy(text) == [isAvailable |-> TRUE, content |-> Undefined, text |-> text]

\* the files handed to an export: parsed tours, a file whose JSON is null,
\* files not parsed yet (tours and a text that is not JSON), and a file
\* marked unavailable
ExportFiles ==
    {Parsed(Tour1), Parsed(Tour2), Parsed(Tour3), Parsed(JNull),
     Lazy(JsonText(Tour1)), Lazy(JsonText(Tour2)), Lazy(<<"{">>), Unparsable}

\* the filter settings of an export: none, the keyword x, the breadcrumb code 1
FilterChoices ==
    {[type |-> "keyword", keyword |-> EMPTY, codes |-> <<>>],
     [type |-> "keyword", keyword |-> <<"x">>, codes |-> <<>>],
     [type |-> "breadcrumb", keyword |-> EMPTY, codes |-> <<<<"1">>>>]}

\* useState('keyword'), useState('')
FilterIdle ==
    /\ filterType = "keyword"
    /\ filterKeyword = EMPTY

\* no export has run
ExportIdle ==
    /\ cursor = 0
    /\ pending = {}
    /\ processedChunk = <<>>
    /\ results = <<>>
    /\ failures = <<>>
    /\ settled = <<>>

\* the controls and the export before the user touches them
UiIdle ==
    /\ FilterIdle
    /\ selection = <<>>
    /\ savedPaths = <<>>
    /\ ExportIdle

\* the schema memo has not sampled
SampleIdle ==
    /\ matchesLength = 0
    /\ sampleI = 0
    /\ sampleIndices = <<>>

\* no schema operation has created an object
NoEffect == [isScanning |-> FALSE, filterType |-> "none", pending |-> FALSE]

ScanIdle ==
    /\ isScanning = FALSE
    /\ queued = <<>>
    /\ effect = NoEffect
    /\ passes = <<>>

\* useState(false), useState(0), useState<number | undefined>(undefined)
CountIdle ==
    /\ isExporting = FALSE
    /\ exportProgress = 0
    /\ filteredCount = Undefined
    /\ processedCount = Undefined

HeapIdle ==
    /\ heap = <<>>
    /\ heapBefore = <<>>
    /\ roots = <<>>

\* the state of the application before any file is picked
AppIdle ==
    /\ CrumbIdle
    /\ files = <<>>
    /\ UiIdle
    /\ SampleIdle
    /\ HeapIdle
    /\ ScanIdle
    /\ CountIdle

Segments == {KeyA, KeyB, KeyA \o BRACKETS, KeyB \o BRACKETS, BRACKETS}

\* the path strings handed to the resolver: the empty path, and one or two
\* segments joined by '.'
Paths ==
    {EMPTY} \cup Segments \cup {s1 \o DOT \o s2 : s1 \in Segments, s2 \in Segments}

Rules == {"join", "count", "first", "last", "json", "other"}

----------------------------------------------------------------------------
(* The document pipeline: a loaded document is inferred, paths are resolved *)
(* against it and it is flattened.                                          *)

Init ==
    /\ doc \in ValuesUpTo(MaxNodes)
    /\ schemaTree = NoTree
    /\ merged = <<>>
    /\ path = EMPTY
    /\ rule = "join"
    /\ value = Undefined
    /\ record = Undefined
    /\ op = "load"
    /\ AppIdle

Infer ==
    /\ schemaTree = NoTree
    /\ schemaTree' = InferTree(doc)
    /\ merged' = <<doc>>
    /\ op' = "infer"
    /\ UNCHANGED <<doc, path, rule, value, record>>
    /\ UNCHANGED appVars

Resolve(p) ==
    /\ op = "infer"
    /\ path' = p
    /\ value' = getValueByPath(doc, p)
    /\ op' = "resolve"
    /\ UNCHANGED <<doc, schemaTree, merged, rule, record>>
    /\ UNCHANGED appVars

Flatten(r) ==
    /\ op = "resolve"
    /\ rule' = r
    /\ record' = flattenTour(doc, <<path>>, r, DefaultSeparator)
    /\ op' = "flatten"
    /\ UNCHANGED <<doc, schemaTree, merged, path, value>>
    /\ UNCHANGED appVars

\* App.schemaTree: merged = mergeSchemaTrees(merged, buildSchemaTree(content))
MergeDoc(d) ==
    /\ op \in {"infer", "merge"}
    /\ Len(merged) < MaxMerge
    /\ schemaTree' = mergeSchemaTrees(schemaTree, InferTree(d))
    /\ merged' = Append(merged, d)
    /\ op' = "merge"
    /\ UNCHANGED <<doc, path, rule, value, record>>
    /\ UNCHANGED appVars

Next ==
    \/ Infer
    \/ \E p \in Paths \cup Range(getAllChildrenPaths(schemaTree)) : Resolve(p)
    \/ \E r \in Rules : Flatten(r)

Spec == Init /\ [][Next]_vars

\* the merge fold over a corpus of small object documents
InitMerge ==
    /\ doc \in MergeDocs
    /\ schemaTree = NoTree
    /\ merged = <<>>
    /\ path = EMPTY
    /\ rule = "join"
    /\ value = Undefined
    /\ record = Undefined
    /\ op = "load"
    /\ AppIdle

NextMerge ==
    \/ Infer
    \/ \E d \in MergeDocs : MergeDoc(d)

SpecMerge == InitMerge /\ [][NextMerge]_vars

\* inference of one array of objects
InitArray ==
    /\ doc \in ArrayDocs(MaxArrayNodes)
    /\ schemaTree = NoTree
    /\ merged = <<>>
    /\ path = EMPTY
    /\ rule = "join"
    /\ value = Undefined
    /\ record = Undefined
    /\ op = "load"
    /\ AppIdle

NextArray ==
    \/ Infer
    \/ \E p \in Range(getAllLeafPaths(schemaTree)) : Resolve(p)

SpecArray == InitArray /\ [][NextArray]_vars

\* matching of one document against selected codes
InitMatch ==
    /\ doc \in MatchDocs(MaxChain)
    /\ schemaTree = NoTree
    /\ merged = <<>>
    /\ path = EMPTY
    /\ rule = "join"
    /\ value = Undefined
    /\ record = Undefined
    /\ op = "load"
    /\ AppIdle

\* App: matchBreadcrumb(f.content, breadcrumbSourcePath, breadcrumbPath)
Match(src, codes) ==
    /\ op = "load"
    /\ sourcePath' = src
    /\ selectedCodes' = codes
    /\ matched' = matchBreadcrumb(doc, src, codes)
    /\ UNCHANGED levelIndex
    /\ op' = "match"
    /\ UNCHANGED <<doc, schemaTree, merged, path, rule, value, record, breadcrumbTree>>
    /\ UNCHANGED <<fileVars, uiVars, sampleVars, heapVars, scanVars, countVars>>

NextMatch ==
    \E src \in SourcePaths : \E codes \in SeqsUpTo(CodeChoices, MaxChain) : Match(src, codes)

SpecMatch == InitMatch /\ [][NextMatch]_vars

\* matching of a document that holds several chains
InitChains ==
    /\ doc \in ChainsDocs(MaxLen)
    /\ schemaTree = NoTree
    /\ merged = <<>>
    /\ path = EMPTY
    /\ rule = "join"
    /\ value = Undefined
    /\ record = Undefined
    /\ op = "load"
    /\ AppIdle

NextChains ==
    \E src \in SourcePaths : \E codes \in SeqsUpTo(CodeChoices, MaxLen) : Match(src, codes)

SpecChains == InitChains /\ [][NextChains]_vars

\* the option tree of the picked files
InitTree ==
    /\ doc = JNull
    /\ schemaTree = NoTree
    /\ merged = <<>>
    /\ path = EMPTY
    /\ rule = "join"
    /\ value = Undefined
    /\ record = Undefined
    /\ op = "load"
    /\ CrumbIdle
    /\ UiIdle
    /\ SampleIdle
    /\ HeapIdle
    /\ ScanIdle
    /\ CountIdle
    /\ files \in FileLists(MaxLen, MaxFiles)

\* App.breadcrumbTree: buildBreadcrumbTree(files.filter(f => f.isAvailable), breadcrumbSourcePath)
BuildTree(src) ==
    /\ op = "load"
    /\ sourcePath' = src
    /\ breadcrumbTree' = buildBreadcrumbTree(Available(files), src)
    /\ op' = "tree"
    /\ UNCHANGED <<doc, schemaTree, merged, path, rule, value, record>>
    /\ UNCHANGED <<selectedCodes, matched, levelIndex>>
    /\ UNCHANGED <<fileVars, uiVars, sampleVars, heapVars, scanVars, countVars>>

NextTree == \E src \in SourcePaths : BuildTree(src)

SpecTree == InitTree /\ [][NextTree]_vars

\* the export of a list of files
InitExport ==
    /\ doc = JNull
    /\ schemaTree = NoTree
    /\ merged = <<>>
    /\ path = EMPTY
    /\ rule = "join"
    /\ value = Undefined
    /\ record = Undefined
    /\ op = "load"
    /\ sourcePath = DefaultSourcePath
    /\ matched = Undefined
    /\ levelIndex = -1
    /\ breadcrumbTree = JMap(<<>>)
    /\ \E choice \in FilterChoices :
          /\ filterType = choice.type
          /\ filterKeyword = choice.keyword
          /\ selectedCodes = choice.codes
    /\ selection = ExportSelection
    /\ savedPaths = ExportSelection
    /\ ExportIdle
    /\ SampleIdle
    /\ HeapIdle
    /\ ScanIdle
    /\ CountIdle
    /\ files \in {NamedFiles(picked) : picked \in SeqsUpTo(ExportFiles, MaxBatch)}

\* the row or null of the k-th parsable file, under the current settings
Processed(k) ==
    ProcessFile(Available(files)[k], JsonValues, filterType, selectedCodes, sourcePath,
                selection, rule)

\* chunk.map(async f => ...) for the chunk that starts after position i: the
\* callbacks of the files that hold their content run to their end, the
\* others wait for their text
BeginChunk(i) ==
    LET parsable == Available(files)
        size == Cardinality(ChunkAt(parsable, i))
    IN /\ cursor' = i
       /\ pending' = ReadsText(parsable, i)
       /\ processedChunk' = [k \in 1..size |->
                                IF i + k \in ReadsText(parsable, i) THEN Unsettled
                                ELSE Processed(i + k)]
       /\ settled' = settled \o SelectSeq([k \in 1..size |-> i + k],
                                           LAMBDA k : k \notin ReadsText(parsable, i))

\* App.handleExport up to the first await
StartExport ==
    /\ op = "load"
    /\ results' = <<>>
    /\ filteredCount' = JNum(0)
    /\ processedCount' = JNum(0)
    /\ exportProgress' = 0
    /\ IF Available(files) = <<>>
       THEN /\ op' = "exported"
            /\ isExporting' = FALSE
            /\ UNCHANGED <<cursor, pending, processedChunk, settled>>
       ELSE /\ op' = "exporting"
            /\ isExporting' = TRUE
            /\ BeginChunk(0)
    /\ UNCHANGED <<doc, schemaTree, merged, path, rule, value, record>>
    /\ UNCHANGED <<crumbVars, fileVars, filterVars, selectVars, sampleVars, heapVars, scanVars, failures>>

Complete(k) ==
    /\ op = "exporting"
    /\ k \in pending
    /\ processedChunk' = Settle(processedChunk, k - cursor, Processed(k))
    /\ pending' = pending \ {k}
    /\ settled' = Append(settled, k)
    /\ UNCHANGED <<doc, schemaTree, merged, path, rule, value, record, op>>
    /\ UNCHANGED <<crumbVars, fileVars, filterVars, selectVars, sampleVars, heapVars, scanVars, countVars, cursor, results, failures>>

\* the chunk is filtered and counted; after the timer the next chunk begins,
\* or the loop is left
CollectChunk ==
    /\ op = "exporting"
    /\ pending = {}
    /\ results' = results \o ValidItems(processedChunk, filterType, filterKeyword)
    /\ filteredCount' = JNum(OrZero(filteredCount)
                                + Len(ValidItems(processedChunk, filterType, filterKeyword)))
    /\ processedCount' = JNum(OrZero(processedCount) + Len(processedChunk))
    /\ exportProgress' = Progress(cursor + Len(processedChunk), Len(Available(files)))
    /\ IF cursor + CHUNK_SIZE < Len(Available(files))
       THEN /\ op' = "exporting"
            /\ BeginChunk(cursor + CHUNK_SIZE)
       ELSE /\ op' = "collected"
            /\ UNCHANGED <<cursor, pending, processedChunk, settled>>
    /\ UNCHANGED <<doc, schemaTree, merged, path, rule, value, record>>
    /\ UNCHANGED <<crumbVars, fileVars, filterVars, selectVars, sampleVars, heapVars, scanVars, failures, isExporting>>

\* the file is written: setIsExporting(false), setExportProgress(0)
FinishExport ==
    /\ op = "collected"
    /\ isExporting' = FALSE
    /\ exportProgress' = 0
    /\ op' = "exported"
    /\ UNCHANGED <<doc, schemaTree, merged, path, rule, value, record>>
    /\ UNCHANGED <<crumbVars, fileVars, uiVars, sampleVars, heapVars, scanVars>>
    /\ UNCHANGED <<filteredCount, processedCount>>

NextExport ==
    \/ StartExport
    \/ \E k \in pending : Complete(k)
    \/ CollectChunk
    \/ FinishExport

SpecExport == InitExport /\ [][NextExport]_vars

\* the export of the first App through ExportPanel: the files come from the
\* picker, parsed or marked unavailable
InitPanel ==
    /\ doc = JNull
    /\ schemaTree = NoTree
    /\ merged = <<>>
    /\ path = EMPTY
    /\ rule = "join"
    /\ value = Undefined
    /\ record = Undefined
    /\ op = "load"
    /\ CrumbIdle
    /\ FilterIdle
    /\ selection = ExportSelection
    /\ savedPaths = ExportSelection
    /\ ExportIdle
    /\ SampleIdle
    /\ HeapIdle
    /\ ScanIdle
    /\ CountIdle
    /\ files \in {NamedFiles(picked) :
                     picked \in SeqsUpTo({f \in ExportFiles : f.isAvailable => ~Falsy(f.content)}
                                            \cup {Parsed(JNull)}, MaxBatch)}

\* ExportPanel.handleExport on files = parsableFiles
PanelExport ==
    /\ op = "load"
    /\ LET lists == PanelFold(Available(files), selection, DefaultSeparator,
                              [success |-> <<>>, failures |-> <<>>])
       IN /\ results' = lists.success
          /\ failures' = lists.failures
    /\ op' = "exported"
    /\ UNCHANGED <<doc, schemaTree, merged, path, rule, value, record>>
    /\ UNCHANGED <<crumbVars, fileVars, filterVars, selectVars, sampleVars, heapVars, scanVars, countVars>>
    /\ UNCHANGED <<cursor, pending, processedChunk, settled>>

NextPanel == PanelExport

SpecPanel == InitPanel /\ [][NextPanel]_vars

\* the application from its first render
InitPick ==
    /\ doc = JNull
    /\ schemaTree = NoTree
    /\ merged = <<>>
    /\ path = EMPTY
    /\ rule = "join"
    /\ value = Undefined
    /\ record = Undefined
    /\ op = "idle"
    /\ AppIdle

\* SourcePicker.handleFileChange and setFiles, then the render of App: the
\* schema tree, the breadcrumb tree and the effect on the selection
PickFiles(texts) ==
    /\ op \in {"idle", "load", "toggle"}
    /\ files' = handleFileChange(texts, JsonValues)
    /\ schemaTree' = AppSchemaTree(files', filterType, selectedCodes, sourcePath)
    /\ breadcrumbTree' = buildBreadcrumbTree(Available(files'), sourcePath)
    /\ selection' = SyncSelection(schemaTree', selection, savedPaths)
    /\ savedPaths' = SavedAfter(selection', savedPaths)
    /\ op' = "load"
    /\ UNCHANGED <<doc, merged, path, rule, value, record>>
    /\ UNCHANGED <<sourcePath, selectedCodes, matched, levelIndex, filterVars, exportVars, sampleVars, heapVars, scanVars, countVars>>

\* setFilterType, setFilterKeyword and setBreadcrumbPath, then the render of
\* App: the schema tree and the effect on the selection
SetFilter(choice) ==
    /\ op \in {"load", "toggle"}
    /\ filterType' = choice.type
    /\ filterKeyword' = choice.keyword
    /\ selectedCodes' = choice.codes
    /\ schemaTree' = AppSchemaTree(files, choice.type, choice.codes, sourcePath)
    /\ selection' = IF <<choice.type, choice.codes>> = <<filterType, selectedCodes>>
                    THEN selection
                    ELSE SyncSelection(schemaTree', selection, savedPaths)
    /\ savedPaths' = SavedAfter(selection', savedPaths)
    /\ op' = "load"
    /\ UNCHANGED <<doc, merged, path, rule, value, record>>
    /\ UNCHANGED <<sourcePath, matched, levelIndex, breadcrumbTree, fileVars, exportVars, sampleVars, heapVars, scanVars, countVars>>

\* scanAllFiles: the available files without content are parsed, setFiles
\* when a parse succeeded, then the render of App
ScanAll ==
    /\ op \in {"load", "toggle"}
    /\ \E i \in DOMAIN files : files[i].isAvailable /\ Falsy(files[i].content)
    /\ files' = [i \in DOMAIN files |->
                    IF /\ files[i].isAvailable /\ Falsy(files[i].content)
                       /\ JSONParse(files[i].text, JsonValues) # Thrown
                    THEN [files[i] EXCEPT !.content = JSONParse(files[i].text, JsonValues)]
                    ELSE files[i]]
    /\ LET hasUpdates == \E i \in DOMAIN files :
                             /\ files[i].isAvailable /\ Falsy(files[i].content)
                             /\ JSONParse(files[i].text, JsonValues) # Thrown
       IN /\ schemaTree' = AppSchemaTree(files', filterType, selectedCodes, sourcePath)
          /\ breadcrumbTree' = buildBreadcrumbTree(Available(files'), sourcePath)
          /\ selection' = IF hasUpdates
                          THEN SyncSelection(schemaTree', selection, savedPaths)
                          ELSE selection
    /\ savedPaths' = SavedAfter(selection', savedPaths)
    /\ op' = "load"
    /\ UNCHANGED <<doc, merged, path, rule, value, record>>
    /\ UNCHANGED <<sourcePath, selectedCodes, matched, levelIndex, filterVars, exportVars, sampleVars, heapVars, scanVars, countVars>>

\* a click on the checkbox of a node of the tree: onToggleBatch for a node
\* with children, onTogglePath for the others
ClickNode(node) ==
    /\ op \in {"load", "toggle"}
    /\ LET childrenPaths == getAllChildrenPaths(node)
           allChildrenSelected ==
               childrenPaths # <<>>
                   /\ \A i \in DOMAIN childrenPaths : childrenPaths[i] \in Range(selection)
       IN selection' =
              IF node.hasCh /\ node.children # <<>>
              THEN handleToggleBatch(selection, childrenPaths, ~allChildrenSelected, schemaTree)
              ELSE handleTogglePath(selection, node.path, node.path \notin Range(selection),
                                    schemaTree)
    /\ savedPaths' = SavedAfter(selection', savedPaths)
    /\ op' = "toggle"
    /\ UNCHANGED <<doc, schemaTree, merged, path, rule, value, record>>
    /\ UNCHANGED <<crumbVars, fileVars, filterVars, exportVars, sampleVars, heapVars, scanVars, countVars>>

\* one pick, filter changes, then the export
NextPick ==
    \/ \E texts \in SeqsUpTo(PickTexts, MaxBatch) : op = "idle" /\ PickFiles(texts)
    \/ \E choice \in FilterChoices : SetFilter(choice)
    \/ StartExport
    \/ \E k \in pending : Complete(k)
    \/ CollectChunk
    \/ FinishExport

SpecPick == InitPick /\ [][NextPick]_vars

\* the selection of the columns: what localStorage holds comes from an
\* earlier session
InitSelect ==
    /\ doc = JNull
    /\ schemaTree = NoTree
    /\ merged = <<>>
    /\ path = EMPTY
    /\ rule = "join"
    /\ value = Undefined
    /\ record = Undefined
    /\ op = "idle"
    /\ CrumbIdle
    /\ files = <<>>
    /\ FilterIdle
    /\ selection = <<>>
    /\ savedPaths \in SavedChoices
    /\ ExportIdle
    /\ SampleIdle
    /\ HeapIdle
    /\ ScanIdle
    /\ CountIdle

NextSelect ==
    \/ \E texts \in SeqsUpTo(SelectTexts, MaxFiles) \ {<<>>} : PickFiles(texts)
    \/ \E choice \in SelectFilters : SetFilter(choice)
    \/ ScanAll
    \/ \E node \in (IF schemaTree \in {NoTree, Thrown} THEN {} ELSE NodesOf(schemaTree)) :
          ClickNode(node)

SpecSelect == InitSelect /\ [][NextSelect]_vars

\* the toggling of the columns: files are picked and the checkboxes of the
\* tree are clicked
InitToggle ==
    /\ doc = JNull
    /\ schemaTree = NoTree
    /\ merged = <<>>
    /\ path = EMPTY
    /\ rule = "join"
    /\ value = Undefined
    /\ record = Undefined
    /\ op = "idle"
    /\ CrumbIdle
    /\ files = <<>>
    /\ FilterIdle
    /\ selection = <<>>
    /\ savedPaths \in ToggleSaved
    /\ ExportIdle
    /\ SampleIdle
    /\ HeapIdle
    /\ ScanIdle
    /\ CountIdle

NextToggle ==
    \/ \E texts \in SeqsUpTo(ToggleTexts, MaxFiles) \ {<<>>} : PickFiles(texts)
    \/ \E node \in (IF schemaTree \in {NoTree, Thrown} THEN {} ELSE NodesOf(schemaTree)) :
          ClickNode(node)

SpecToggle == InitToggle /\ [][NextToggle]_vars

\* the merge fold over documents with plain and with dotted keys
InitPaths ==
    /\ doc \in PathDocs
    /\ schemaTree = NoTree
    /\ merged = <<>>
    /\ path = EMPTY
    /\ rule = "join"
    /\ value = Undefined
    /\ record = Undefined
    /\ op = "load"
    /\ AppIdle

NextPaths ==
    \/ Infer
    \/ \E d \in PathDocs : MergeDoc(d)

SpecPaths == InitPaths /\ [][NextPaths]_vars

\* lazy scanning.  A state update (setFiles, setIsScanning, setIsExporting)
\* is queued and takes effect with the next render; the render applies every
\* update queued so far, and when the file array is a new one the
\* files-changed effect runs afterwards with the values of that render.  The
\* file objects are shared by the file array, its copies and the state, so
\* f.content = ... is seen at once.
MaxPasses == 2

SET_FILES == "setFiles"
SCANNING_ON == "setIsScanning(true)"
SCANNING_OFF == "setIsScanning(false)"
EXPORTING_ON == "setIsExporting(true)"
EXPORTING_OFF == "setIsExporting(false)"

ScanKinds ==
    {Parsed(Tour1), Parsed(JNull), Lazy(JsonText(Tour1)), Lazy(JsonText(Tour2)),
     Lazy(<<"{">>), Lazy(JsonText(JNull)), Unparsable}

\* files.some(f => f.isAvailable && !f.content)
hasUnparsed(fileList) ==
    \E i \in DOMAIN fileList : fileList[i].isAvailable /\ Falsy(fileList[i].content)

\* the indices of the files to parse
unparsedIndices(fileList) ==
    SelectSeq([i \in DOMAIN fileList |-> i],
              LAMBDA i : Falsy(fileList[i].content) /\ fileList[i].isAvailable)

\* unparsedIndices.slice(i, i + CHUNK_SIZE), as the set of the reads begun
chunkIndices(unparsed, i) ==
    {unparsed[k] : k \in {j \in DOMAIN unparsed : i < j /\ j <= i + CHUNK_SIZE}}

\* the last value queued for a flag, or the value it has
Applied(flag, on, off) ==
    LET sets == {k \in DOMAIN queued : queued[k] \in {on, off}}
    IN IF sets = {} THEN flag
       ELSE queued[CHOOSE k \in sets : \A m \in sets : m <= k] = on

FilesQueued == \E k \in DOMAIN queued : queued[k] = SET_FILES

\* mutant: scanAllFiles without its first line
Busy_Ignored(flag) == FALSE

\* if (isScanning) return
Busy(flag) == flag

ScanFrame ==
    /\ op = "load"
    /\ UNCHANGED <<doc, merged, path, rule, value, record, op>>
    /\ UNCHANGED <<sourcePath, selectedCodes, matched, levelIndex>>
    /\ UNCHANGED <<filterVars, exportVars, sampleVars, heapVars>>
    /\ UNCHANGED <<exportProgress, filteredCount, processedCount>>

InitScan ==
    /\ doc = JNull
    /\ schemaTree = NoTree
    /\ merged = <<>>
    /\ path = EMPTY
    /\ rule = "join"
    /\ value = Undefined
    /\ record = Undefined
    /\ op = "idle"
    /\ AppIdle

\* the files are picked under one of the filter modes: the file array is a
\* new one, its effect is left to run
PickToScan(picked, mode) ==
    /\ op = "idle"
    /\ files' = NamedFiles(picked)
    /\ filterType' = mode
    /\ effect' = [isScanning |-> isScanning, filterType |-> mode, pending |-> TRUE]
    /\ breadcrumbTree' = buildBreadcrumbTree(Available(files'), sourcePath)
    /\ op' = "load"
    /\ UNCHANGED <<doc, schemaTree, merged, path, rule, value, record>>
    /\ UNCHANGED <<sourcePath, selectedCodes, matched, levelIndex>>
    /\ UNCHANGED <<filterKeyword, selectVars, exportVars, sampleVars, heapVars, countVars>>
    /\ UNCHANGED <<isScanning, queued, passes>>

\* the files-changed effect of App, and scanAllFiles up to its first await
FilesChanged ==
    /\ effect.pending
    /\ effect' = NoEffect
    /\ IF hasUnparsed(files) /\ ~Busy(effect.isScanning)
       THEN /\ Len(passes) < MaxPasses
            /\ queued' = Append(queued, SCANNING_ON)
            /\ passes' = Append(passes,
                                [unparsed |-> unparsedIndices(files), i |-> 0,
                                 reads |-> chunkIndices(unparsedIndices(files), 0),
                                 hasUpdates |-> FALSE, pc |-> "reading"])
       ELSE UNCHANGED <<queued, passes>>
    /\ UNCHANGED <<schemaTree, breadcrumbTree, files, selectVars, isScanning, isExporting>>
    /\ ScanFrame

\* f.file.text() of one file has resolved: f.content = JSON.parse(text)
ReadFile(p, idx) ==
    /\ p \in DOMAIN passes
    /\ idx \in passes[p].reads
    /\ LET parsed == JSONParse(files[idx].text, JsonValues)
       IN /\ files' = IF parsed = Thrown THEN files
                      ELSE [files EXCEPT ![idx].content = parsed]
          /\ passes' = [passes EXCEPT ![p].reads = @ \ {idx},
                                       ![p].hasUpdates = @ \/ parsed # Thrown]
    /\ UNCHANGED <<schemaTree, breadcrumbTree, selectVars, isScanning, queued, effect,
                   isExporting>>
    /\ ScanFrame

\* Promise.all of the chunk has resolved: setFiles([...currentFiles]) when a
\* file was parsed, then the timer is set
ChunkDone(p) ==
    /\ p \in DOMAIN passes
    /\ passes[p].pc = "reading"
    /\ passes[p].reads = {}
    /\ queued' = IF passes[p].hasUpdates THEN Append(queued, SET_FILES) ELSE queued
    /\ passes' = [passes EXCEPT ![p].pc = "timer"]
    /\ UNCHANGED <<schemaTree, breadcrumbTree, files, selectVars, isScanning, effect,
                   isExporting>>
    /\ ScanFrame

\* the timer of the chunk has fired: the next chunk is begun, or the pass
\* ends with setIsScanning(false)
ChunkTimer(p) ==
    /\ p \in DOMAIN passes
    /\ passes[p].pc = "timer"
    /\ IF passes[p].i + CHUNK_SIZE < Len(passes[p].unparsed)
       THEN /\ passes' = [passes EXCEPT
                             ![p].i = @ + CHUNK_SIZE,
                             ![p].reads = chunkIndices(passes[p].unparsed,
                                                       passes[p].i + CHUNK_SIZE),
                             ![p].pc = "reading"]
            /\ UNCHANGED queued
       ELSE /\ passes' = SubSeq(passes, 1, p - 1) \o SubSeq(passes, p + 1, Len(passes))
            /\ queued' = Append(queued, SCANNING_OFF)
    /\ UNCHANGED <<schemaTree, breadcrumbTree, files, selectVars, isScanning, effect,
                   isExporting>>
    /\ ScanFrame

\* a render of App: the queued updates are applied, the memos of a new file
\* array are computed, and its effect is left to run
Render ==
    /\ queued # <<>>
    /\ ~effect.pending
    /\ isScanning' = Applied(isScanning, SCANNING_ON, SCANNING_OFF)
    /\ isExporting' = Applied(isExporting, EXPORTING_ON, EXPORTING_OFF)
    /\ queued' = <<>>
    /\ IF FilesQueued
       THEN /\ effect' = [isScanning |-> isScanning', filterType |-> filterType,
                          pending |-> TRUE]
            /\ schemaTree' = AppSchemaTree(files, filterType, selectedCodes, sourcePath)
            /\ breadcrumbTree' = buildBreadcrumbTree(Available(files), sourcePath)
            /\ selection' = SyncSelection(schemaTree', selection, savedPaths)
            /\ savedPaths' = SavedAfter(selection', savedPaths)
       ELSE UNCHANGED <<effect, schemaTree, breadcrumbTree, selectVars>>
    /\ UNCHANGED <<files, passes>>
    /\ ScanFrame

NextScan ==
    \/ \E picked \in SeqsUpTo(ScanKinds, MaxBatch) : \E mode \in {"keyword", "breadcrumb"} :
          PickToScan(picked, mode)
    \/ FilesChanged
    \/ \E p \in 1..MaxPasses : \E idx \in 1..MaxBatch : ReadFile(p, idx)
    \/ \E p \in 1..MaxPasses : ChunkDone(p)
    \/ \E p \in 1..MaxPasses : ChunkTimer(p)
    \/ Render

SpecScan == InitScan /\ [][NextScan]_vars

\* the steps of a scan as the variables show them: a read has resolved, a
\* render has emptied the queue
ReadPending == \E p \in DOMAIN passes : passes[p].reads # {}

ReadResolved ==
    /\ Len(passes') = Len(passes)
    /\ \E p \in DOMAIN passes :
          passes'[p].reads # passes[p].reads /\ passes'[p].reads \subseteq passes[p].reads

RenderPending == queued # <<>> /\ ~effect.pending

Rendered == RenderPending /\ queued' = <<>>

\* every read resolves, every queued update is rendered (weak fairness of
\* ReadFile and of the render, written with their enabling conditions), every
\* timer fires and every effect runs
SpecScanFair ==
    /\ SpecScan
    /\ WF_vars(FilesChanged)
    /\ ([]<>(~ReadPending) \/ []<><<ReadResolved>>_vars)
    /\ WF_vars(\E p \in 1..MaxPasses : ChunkDone(p))
    /\ WF_vars(\E p \in 1..MaxPasses : ChunkTimer(p))
    /\ ([]<>(~RenderPending) \/ []<><<Rendered>>_vars)

\* the breadcrumb-mode effect of part_003 and its scanAllFiles up to the first
\* await: no busy check, every unparsed file is read at once
BreadcrumbModeEffect ==
    /\ effect.pending
    /\ effect' = NoEffect
    /\ IF effect.filterType = "breadcrumb" /\ hasUnparsed(files)
       THEN /\ Len(passes) < MaxPasses
            /\ queued' = Append(queued, EXPORTING_ON)
            /\ passes' = Append(passes,
                                [unparsed |-> unparsedIndices(files), i |-> 0,
                                 reads |-> {unparsedIndices(files)[k] :
                                               k \in DOMAIN unparsedIndices(files)},
                                 hasUpdates |-> FALSE, pc |-> "reading"])
       ELSE UNCHANGED <<queued, passes>>
    /\ UNCHANGED <<schemaTree, breadcrumbTree, files, selectVars, isScanning, isExporting>>
    /\ ScanFrame

\* Promise.all has resolved: setIsExporting(false), and setFiles(updatedFiles)
\* when a file was parsed
ScanReturns(p) ==
    /\ p \in DOMAIN passes
    /\ passes[p].reads = {}
    /\ queued' = IF passes[p].hasUpdates
                 THEN queued \o <<EXPORTING_OFF, SET_FILES>>
                 ELSE Append(queued, EXPORTING_OFF)
    /\ passes' = SubSeq(passes, 1, p - 1) \o SubSeq(passes, p + 1, Len(passes))
    /\ UNCHANGED <<schemaTree, breadcrumbTree, files, selectVars, isScanning, effect,
                   isExporting>>
    /\ ScanFrame

\* a render of the App of part_003
RenderBreadcrumbMode ==
    /\ queued # <<>>
    /\ ~effect.pending
    /\ isExporting' = Applied(isExporting, EXPORTING_ON, EXPORTING_OFF)
    /\ queued' = <<>>
    /\ IF FilesQueued
       THEN /\ effect' = [isScanning |-> FALSE, filterType |-> filterType,
                          pending |-> TRUE]
            /\ breadcrumbTree' = buildBreadcrumbTree(Available(files), sourcePath)
       ELSE UNCHANGED <<effect, breadcrumbTree>>
    /\ UNCHANGED <<schemaTree, files, selectVars, isScanning, passes>>
    /\ ScanFrame

NextLazy ==
    \/ \E picked \in SeqsUpTo(ScanKinds, MaxBatch) : \E mode \in {"keyword", "breadcrumb"} :
          PickToScan(picked, mode)
    \/ BreadcrumbModeEffect
    \/ \E p \in 1..MaxPasses : \E idx \in 1..MaxBatch : ReadFile(p, idx)
    \/ \E p \in 1..MaxPasses : ScanReturns(p)
    \/ RenderBreadcrumbMode

SpecLazy == InitScan /\ [][NextLazy]_vars

SpecLazyFair ==
    /\ SpecLazy
    /\ WF_vars(BreadcrumbModeEffect)
    /\ ([]<>(~ReadPending) \/ []<><<ReadResolved>>_vars)
    /\ WF_vars(\E p \in 1..MaxPasses : ScanReturns(p))
    /\ ([]<>(~RenderPending) \/ []<><<Rendered>>_vars)

\* the dropdowns of the breadcrumb filter: the option tree is built from the
\* files, then levels are changed, the filter is cleared and the source path
\* is edited
ChangeLevel(index, newValue) ==
    /\ op \in {"tree", "level", "clear", "source"}
    /\ breadcrumbTree # Thrown
    /\ index + 1 \in DOMAIN levels(breadcrumbTree, selectedCodes)
    /\ newValue \in {EMPTY} \cup
           {levels(breadcrumbTree, selectedCodes)[index + 1][k].code :
               k \in DOMAIN levels(breadcrumbTree, selectedCodes)[index + 1]}
    /\ selectedCodes' = handleLevelChange(selectedCodes, index, newValue)
    /\ levelIndex' = index
    /\ op' = "level"
    /\ UNCHANGED <<doc, schemaTree, merged, path, rule, value, record>>
    /\ UNCHANGED <<sourcePath, matched, breadcrumbTree>>
    /\ UNCHANGED <<fileVars, uiVars, sampleVars, heapVars, scanVars, countVars>>

\* Clear Filter, shown while a first code is selected: onBreadcrumbPathChange([])
ClearFilter ==
    /\ op \in {"tree", "level", "clear", "source"}
    /\ breadcrumbTree # Thrown
    /\ Len(selectedCodes) > 0 /\ selectedCodes[1] # EMPTY
    /\ selectedCodes' = <<>>
    /\ levelIndex' = -1
    /\ op' = "clear"
    /\ UNCHANGED <<doc, schemaTree, merged, path, rule, value, record>>
    /\ UNCHANGED <<sourcePath, matched, breadcrumbTree>>
    /\ UNCHANGED <<fileVars, uiVars, sampleVars, heapVars, scanVars, countVars>>

\* onBreadcrumbSourcePathChange: the option tree is built again, the
\* selection stays
ChangeSource(src) ==
    /\ op \in {"tree", "level", "clear", "source"}
    /\ src # sourcePath
    /\ sourcePath' = src
    /\ breadcrumbTree' = buildBreadcrumbTree(Available(files), src)
    /\ levelIndex' = -1
    /\ op' = "source"
    /\ UNCHANGED <<doc, schemaTree, merged, path, rule, value, record>>
    /\ UNCHANGED <<selectedCodes, matched>>
    /\ UNCHANGED <<fileVars, uiVars, sampleVars, heapVars, scanVars, countVars>>

NextLevels ==
    \/ BuildTree(DefaultSourcePath)
    \/ \E index \in 0..MaxChain : \E newValue \in CodeChoices :
          ChangeLevel(index, newValue)
    \/ ClearFilter
    \/ \E src \in SourcePaths : ChangeSource(src)

SpecLevels == InitTree /\ [][NextLevels]_vars

\* the schema operations called one after the other on one heap: trees are
\* inferred and merged, and schema maps are accumulated
InitHeap ==
    /\ doc = JNull
    /\ schemaTree = NoTree
    /\ merged = <<>>
    /\ path = EMPTY
    /\ rule = "join"
    /\ value = Undefined
    /\ record = Undefined
    /\ op = "idle"
    /\ CrumbIdle
    /\ files = <<>>
    /\ UiIdle
    /\ SampleIdle
    /\ HeapIdle
    /\ ScanIdle
    /\ CountIdle

\* the document pipeline and the application are left alone
HeapFrame ==
    /\ UNCHANGED <<schemaTree, merged, path, rule, value, record>>
    /\ UNCHANGED <<crumbVars, fileVars, uiVars, sampleVars, scanVars, countVars>>

\* buildSchemaTree(d)
InferOnHeap(d) ==
    /\ Len(roots) < MaxCalls
    /\ LET tree == BuildOnHeap(heap, d, <<>>, ROOT)
       IN /\ heap' = tree.heap
          /\ roots' = Append(roots, [ref |-> tree.ref, by |-> "infer", from |-> <<d>>])
    /\ heapBefore' = heap
    /\ doc' = d
    /\ op' = "infer"
    /\ HeapFrame

\* mergeSchemaTrees(base, extra) of two trees returned earlier
MergeRoots(i, j) ==
    /\ Len(roots) < MaxCalls
    /\ roots[i].by \in {"infer", "merge"}
    /\ roots[j].by \in {"infer", "merge"}
    /\ LET tree == MergeOnHeap(heap, roots[i].ref, roots[j].ref)
       IN /\ heap' = tree.heap
          /\ roots' = Append(roots, [ref |-> tree.ref, by |-> "merge", from |-> <<i, j>>])
    /\ heapBefore' = heap
    /\ op' = "merge"
    /\ UNCHANGED doc
    /\ HeapFrame

\* let mergedSchema = {}
NewSchema ==
    /\ Len(roots) < MaxCalls
    /\ heap' = Alloc(heap, MapCell(<<>>)).heap
    /\ roots' = Append(roots, [ref |-> Alloc(heap, MapCell(<<>>)).ref, by |-> "new",
                               from |-> <<>>])
    /\ heapBefore' = heap
    /\ op' = "new"
    /\ UNCHANGED doc
    /\ HeapFrame

\* mergedSchema = buildSchema(d, '', mergedSchema), on a schema map returned
\* earlier
Accumulate(i, d) ==
    /\ Len(roots) < MaxCalls
    /\ roots[i].by \in {"new", "accumulate"}
    /\ heap' = BuildSchemaOnHeap(heap, d, <<>>, roots[i].ref)
    /\ roots' = Append(roots, [ref |-> roots[i].ref, by |-> "accumulate", from |-> <<i>>])
    /\ heapBefore' = heap
    /\ doc' = d
    /\ op' = "accumulate"
    /\ HeapFrame

NextHeap ==
    \/ \E d \in HeapDocs : InferOnHeap(d)
    \/ \E i, j \in DOMAIN roots : MergeRoots(i, j)
    \/ NewSchema
    \/ \E i \in DOMAIN roots : \E d \in HeapDocs : Accumulate(i, d)

SpecHeap == InitHeap /\ [][NextHeap]_vars

\* the sampling of the schema memo over a corpus of which only the number
\* of matching documents is spelled out
InitSample ==
    /\ doc = JNull
    /\ schemaTree = NoTree
    /\ merged = <<>>
    /\ path = EMPTY
    /\ rule = "join"
    /\ value = Undefined
    /\ record = Undefined
    /\ op = "idle"
    /\ CrumbIdle
    /\ files = <<>>
    /\ UiIdle
    /\ matchesLength \in SampleCounts
    /\ sampleI = 0
    /\ sampleIndices = <<>>
    /\ HeapIdle
    /\ ScanIdle
    /\ CountIdle

\* let samples = matches, when matches.length is within the cap
TakeAll ==
    /\ op = "idle"
    /\ matchesLength <= MAX_SCHEMA_SAMPLES
    /\ sampleIndices' = [k \in 1..matchesLength |-> k - 1]
    /\ op' = "sampled"
    /\ UNCHANGED <<doc, schemaTree, merged, path, rule, value, record>>
    /\ UNCHANGED <<crumbVars, fileVars, uiVars, heapVars, scanVars, countVars, matchesLength, sampleI>>

\* one round of the for loop: index = Math.floor(i * step), and
\* samples.push(matches[index]) when there is a document at the index
SampleStep ==
    /\ op \in {"idle", "sampling"}
    /\ matchesLength > MAX_SCHEMA_SAMPLES
    /\ sampleI < MAX_SCHEMA_SAMPLES
    /\ LET index == SampleIndex(sampleI, matchesLength)
       IN sampleIndices' = IF index < matchesLength THEN Append(sampleIndices, index)
                           ELSE sampleIndices
    /\ sampleI' = sampleI + 1
    /\ op' = IF sampleI' = MAX_SCHEMA_SAMPLES THEN "sampled" ELSE "sampling"
    /\ UNCHANGED <<doc, schemaTree, merged, path, rule, value, record>>
    /\ UNCHANGED <<crumbVars, fileVars, uiVars, heapVars, scanVars, countVars, matchesLength>>

NextSample ==
    \/ TakeAll
    \/ SampleStep

SpecSample == InitSample /\ [][NextSample]_vars

\* resolution and flattening of a path with two array segments
InitNested ==
    /\ doc \in NestedDocs(MaxLen)
    /\ schemaTree = NoTree
    /\ merged = <<>>
    /\ path = EMPTY
    /\ rule = "join"
    /\ value = Undefined
    /\ record = Undefined
    /\ op = "load"
    /\ AppIdle

NextNested ==
    \/ Infer
    \/ Resolve(NestedPath)
    \/ \E r \in Rules : Flatten(r)

SpecNested == InitNested /\ [][NextNested]_vars

----------------------------------------------------------------------------
(* Claims about paths: C1, C2 *)

IsScalarValue(v) == v.t \in {"null", "str", "num"}

\* a non-empty sequence (nested or not) that holds scalars only
RECURSIVE HoldsScalarsOnly(_)
HoldsScalarsOnly(v) ==
    IF v.t = "arr"
    THEN v.el # <<>> /\ \A i \in DOMAIN v.el : HoldsScalarsOnly(v.el[i])
    ELSE IsScalarValue(v)

DefinedNonObject(pth, v) ==
    \/ IsScalarValue(v)
    \/ (IncludesBrackets(pth) /\ v.t = "arr" /\ HoldsScalarsOnly(v))

\* C1: path round trip. For a document that is an object or an array, the
\* value resolved at any leaf path of its inferred tree is a scalar or, for a
\* path with array segments, a non-empty sequence of scalars; never
\* undefined, never an empty sequence, never a raised error.
C1_PathRoundTrip ==
    (/\ op = "resolve"
     /\ doc.t \in {"obj", "arr"}
     /\ path \in Range(getAllLeafPaths(schemaTree)))
        => DefinedNonObject(path, value)

\* the keys of every object of a value
RECURSIVE KeysOf(_)
KeysOf(v) ==
    IF v.t = "obj"
    THEN {v.kv[i].k : i \in DOMAIN v.kv} \cup UNION {KeysOf(v.kv[i].v) : i \in DOMAIN v.kv}
    ELSE IF v.t = "arr" THEN UNION {KeysOf(v.el[i]) : i \in DOMAIN v.el}
    ELSE {}

SegmentKey(seg) == IF EndsWithBrackets(seg) THEN DropLast2(seg) ELSE seg

\* every segment of the path is a key of the document, with or without []
\* (the bare [] segment of a root array has the empty key)
MadeOfKeys(pth, d) ==
    \A i \in DOMAIN Split(pth) :
        LET key == SegmentKey(Split(pth)[i])
        IN key \in KeysOf(d) \/ (key = EMPTY /\ EndsWithBrackets(Split(pth)[i]))

\* the object elements of the array at the i-th root key that have the field f
ElementsWithField(d, i, f) ==
    {j \in DOMAIN d.kv[i].v.el :
        d.kv[i].v.el[j].t = "obj" /\ LookupFrom(d.kv[i].v.el[j].kv, f, 1) # Undefined}

\* the paths the grammar gives the field f of the elements of the array at
\* the root key K: K[].f, or K[].f[] where an element holds an array at f
FieldPaths(d, i, f) ==
    {d.kv[i].k \o BRACKETS \o DOT \o f
        \o (IF IsArray(LookupFrom(d.kv[i].v.el[j].kv, f, 1)) THEN BRACKETS ELSE EMPTY)
        : j \in ElementsWithField(d, i, f)}

\* the root keys that hold an array
ArrayKeys(d) == IF d.t = "obj" THEN {i \in DOMAIN d.kv : IsArray(d.kv[i].v)} ELSE {}

\* C2: every node path of the inferred tree is made of the document's own
\* keys joined by '.', with [] after a key that holds an array, and a field
\* f of the elements of the array at key K has the path K[].f (K[].f[] when
\* f holds an array).
C2_PathGrammar ==
    op = "infer" =>
        /\ \A p \in Range(getAllChildrenPaths(schemaTree)) : MadeOfKeys(p, doc)
        /\ \A i \in ArrayKeys(doc) : \A f \in Keys :
              ElementsWithField(doc, i, f) # {}
                  => FieldPaths(doc, i, f) \cap Range(getAllChildrenPaths(schemaTree)) # {}

----------------------------------------------------------------------------
(* Claims about merging: C3, C5 *)

LeafSet(tree) == Range(getAllLeafPaths(tree))

Reverse(seq) == [i \in DOMAIN seq |-> seq[Len(seq) + 1 - i]]

\* C3: whatever the order of the fold, the merged tree lists every leaf path
\* of every folded document, and the reverse order gives the same set.
C3_MergeKeepsUnion ==
    op = "merge" =>
        /\ \A i \in DOMAIN merged : LeafSet(InferTree(merged[i])) \subseteq LeafSet(schemaTree)
        /\ LeafSet(FoldTrees(Reverse(merged))) = LeafSet(schemaTree)

IsStructured(node) == node.type \in {"object", "array"}

ChildNamed(tree, name) == tree.children[FindIndex(tree.children, name)]
HasChildNamed(tree, name) == FindIndex(tree.children, name) # 0

\* the keys at which the two trees disagree: scalar in one, object or array in the other
Disagreements(base, extra) ==
    {base.children[i].name : i \in
        {j \in DOMAIN base.children :
            /\ HasChildNamed(extra, base.children[j].name)
            /\ IsStructured(base.children[j])
                 # IsStructured(ChildNamed(extra, base.children[j].name))}}

StructuredOf(n1, n2) == IF IsStructured(n1) THEN n1 ELSE n2

\* C5: where two merged trees disagree on the type at a key, the merged node
\* has the structured type and the structured side's leaf paths are listed,
\* whichever tree is the base.
C5_StructuredWins ==
    (op = "merge" /\ Len(merged) = 2) =>
        LET base == InferTree(merged[1])
            extra == InferTree(merged[2])
        IN \A name \in Disagreements(base, extra) :
              LET winner == StructuredOf(ChildNamed(base, name), ChildNamed(extra, name))
              IN /\ ChildNamed(schemaTree, name).type = winner.type
                 /\ LeafSet(winner) \subseteq LeafSet(schemaTree)

----------------------------------------------------------------------------
(* Claim about array inference: C4 *)

NodePathSet(tree) == Range(getAllChildrenPaths(tree))

ChildNames(tree) == {tree.children[i].name : i \in DOMAIN tree.children}

\* the field is absent, null, {} or [] in the element
WeakField(element, key) ==
    PropGet(element, key) \in {Undefined, JNull, JObj(<<>>), JArr(<<>>)}

ArrayPrefix(d, k) == JArr(SubSeq(d.el, 1, k))

\* the subtree of the field in both trees lists the same nodes and the same leaves
SameSubtree(t1, t2, key) ==
    /\ HasChildNamed(t1, key)
    /\ HasChildNamed(t2, key)
    /\ NodePathSet(ChildNamed(t1, key)) = NodePathSet(ChildNamed(t2, key))
    /\ LeafSet(ChildNamed(t1, key)) = LeafSet(ChildNamed(t2, key))
    /\ ChildNamed(t1, key).type = ChildNamed(t2, key).type

\* C4: the children of the node of an array of objects are the union of the
\* fields of its elements, and a field discovered up to element k keeps its
\* subtree, leaves included, when every later element has that field absent,
\* null, {} or [].
C4_ArrayKeepsSparseFields ==
    op = "infer" =>
        /\ ChildNames(schemaTree) = UNION {{doc.el[i].kv[n].k : n \in DOMAIN doc.el[i].kv}
                                            : i \in DOMAIN doc.el}
        /\ \A k \in 1..(Len(doc.el) - 1) : \A key \in Keys :
              (/\ HasChildNamed(InferTree(ArrayPrefix(doc, k)), key)
               /\ \A j \in (k + 1)..Len(doc.el) : WeakField(doc.el[j], key))
                  => SameSubtree(schemaTree, InferTree(ArrayPrefix(doc, k)), key)

\* an array whose first element has a nested field with a leaf and whose
\* second element has that field empty has been inferred, and the leaf is listed
C4_Witness ==
    /\ op = "infer"
    /\ Len(doc.el) = 2
    /\ PropGet(doc.el[1], KeyA).t = "obj"
    /\ PropGet(doc.el[1], KeyA).kv # <<>>
    /\ PropGet(doc.el[2], KeyA) = JObj(<<>>)
    /\ LeafSet(ChildNamed(schemaTree, KeyA)) # {}

----------------------------------------------------------------------------
(* Claims about resolution and flattening: C6 .. C10 *)

\* C6: getValueByPath never raises: for every document and every path the
\* result is undefined, a value or a sequence.
C6_ResolveNeverRaises ==
    op = "resolve" => value # Thrown

\* C7: flattenTour is total: it returns a record, and no cell of the record
\* is undefined.
C7_FlattenTotal ==
    op = "flatten" =>
        /\ record # Thrown
        /\ \A p \in DOMAIN record.cells : record.cells[p] # Undefined

\* C8: every cell of a record flattenTour returns is a string or a number,
\* never an object and never an array, for leaf and non-leaf paths and for
\* every rule.
C8_CellsAreFlat ==
    (op = "flatten" /\ record # Thrown) =>
        \A p \in DOMAIN record.cells : record.cells[p].t \in {"str", "num"}

\* the resolved sequence flattened to one level, null and undefined removed
RECURSIVE Leaves(_)
Leaves(v) ==
    IF v.t = "arr"
    THEN Concat([i \in DOMAIN v.el |-> Leaves(v.el[i])])
    ELSE IF v.t \in {"null", "undefined"} THEN <<>> ELSE <<v>>

\* what the claim gives each rule for the sequence S
RuleResult(r, S, separator) ==
    CASE r = "join" -> JStr(Join([i \in DOMAIN S |-> JoinText(S[i])], separator))
      [] r = "count" -> JNum(Len(S))
      [] r = "first" -> IF Len(S) = 0 THEN JStr(EMPTY) ELSE S[1]
      [] r = "last" -> IF Len(S) = 0 THEN JStr(EMPTY) ELSE S[Len(S)]
      [] r = "json" -> JStr(JsonText(JArr(S)))

NamedRules == {"join", "count", "first", "last", "json"}

\* C9: for a path with an array segment that resolves to a sequence, each
\* rule gives its result on the flattened, null-free sequence: the joined
\* text, the count, the first or last element or '', the serialization.
C9_ArrayRules ==
    (/\ op = "flatten"
     /\ rule \in NamedRules
     /\ IncludesBrackets(path)
     /\ value.t = "arr")
        => /\ record # Thrown
           /\ record.cells[path] = RuleResult(rule, Leaves(value), DefaultSeparator)

\* a sequence that holds a null and another element has been flattened with
\* the rule last, and the cell is the last element that is not null
C9_Witness ==
    /\ op = "flatten"
    /\ rule = "last"
    /\ IncludesBrackets(path)
    /\ value.t = "arr"
    /\ \E i \in DOMAIN value.el : value.el[i] = JNull
    /\ Len(Leaves(value)) >= 1
    /\ record.cells[path] # JStr(EMPTY)

\* C10: a rule that is none of join, count, first, last, json gives the
\* record that join gives.
C10_UnknownRuleIsJoin ==
    (op = "flatten" /\ rule \notin NamedRules) =>
        record = flattenTour(doc, <<path>>, "join", DefaultSeparator)

\* an unknown rule has flattened a sequence of two elements or more, on
\* which join, count, first, last and json all differ
C10_Witness ==
    /\ op = "flatten"
    /\ rule \notin NamedRules
    /\ IncludesBrackets(path)
    /\ value.t = "arr"
    /\ Len(Leaves(value)) >= 2
    /\ record # Thrown
    /\ record.cells[path] = RuleResult("join", Leaves(value), DefaultSeparator)

----------------------------------------------------------------------------
(* Claims about paths with several array segments: C11, C12 *)

\* the names of one day, in the order of its inner array
NamesOfDay(day) ==
    IF day.kv = <<>> THEN <<>>
    ELSE [j \in DOMAIN day.kv[1].v.el |-> day.kv[1].v.el[j].kv[1].v]

\* the names of the document: day after day, and within a day item after item
DocOrderNames(d) ==
    Concat([i \in DOMAIN d.kv[1].v.el |-> NamesOfDay(d.kv[1].v.el[i])])

\* C11: flattening a path with two array segments keeps document order at
\* both depths: join gives the names day after day and, within a day, item
\* after item, joined by the separator; first and last give the two ends.
C11_DocumentOrder ==
    (op = "flatten" /\ path = NestedPath) =>
        LET names == DocOrderNames(doc)
        IN /\ rule = "join" =>
                record.cells[path] = JStr(Join([i \in DOMAIN names |-> JoinText(names[i])],
                                               DefaultSeparator))
           /\ (rule = "first" /\ names # <<>>) => record.cells[path] = names[1]
           /\ (rule = "last" /\ names # <<>>) => record.cells[path] = names[Len(names)]

\* days [[x], [0, x]] have been flattened with join
C11_Witness ==
    /\ op = "flatten"
    /\ rule = "join"
    /\ path = NestedPath
    /\ Len(doc.kv[1].v.el) = 2
    /\ NamesOfDay(doc.kv[1].v.el[1]) = <<JStr(<<"x">>)>>
    /\ NamesOfDay(doc.kv[1].v.el[2]) = <<JNum(0), JStr(<<"x">>)>>
    /\ record.cells[path] = JStr(<<"x", ";", " ", "0", ";", " ", "x">>)

\* no element of the sequence is itself a sequence
IsFlatSequence(v) == v.t = "arr" /\ \A i \in DOMAIN v.el : v.el[i].t # "arr"

\* C12: for a path with a non-final array segment getValueByPath returns one
\* flat sequence: the names of all the days in one level, no sequence nested
\* in the result, and nothing for a day on which the suffix is undefined.
C12_ResolveIsFlat ==
    (op = "resolve" /\ path = NestedPath) =>
        /\ IsFlatSequence(value)
        /\ value = JArr(DocOrderNames(doc))

----------------------------------------------------------------------------
(* Claims about the breadcrumb filter: C13, C14 *)

\* the document is {a: chain}
IsChainDoc(d) ==
    d.t = "obj" /\ Len(d.kv) = 1 /\ d.kv[1].k = KeyA /\ d.kv[1].v.t = "arr"

\* the document is {queries: {getCommBreadcrumb: [{data: chain}, ...]}}
IsWrapperDoc(d) ==
    /\ d.t = "obj" /\ Len(d.kv) = 1 /\ d.kv[1].k = QUERIES
    /\ d.kv[1].v.t = "obj" /\ Len(d.kv[1].v.kv) = 1
    /\ d.kv[1].v.kv[1].k = GET_COMM_BREADCRUMB
    /\ d.kv[1].v.kv[1].v.t = "arr"
    /\ \A i \in DOMAIN d.kv[1].v.kv[1].v.el :
          LET b == d.kv[1].v.kv[1].v.el[i]
          IN b.t = "obj" /\ Len(b.kv) = 1 /\ b.kv[1].k = DATA /\ b.kv[1].v.t = "arr"

\* the chains of a wrapper document, in order
WrapperChains(d) ==
    [i \in DOMAIN d.kv[1].v.kv[1].v.el |-> d.kv[1].v.kv[1].v.el[i].kv[1].v.el]

\* the code of a node, as a string
CodeText(node) ==
    LET c == LookupFrom(node.kv, CODE, 1)
    IN IF c.t = "str" THEN c.s ELSE IF c.t = "num" THEN NumToStr(c.n) ELSE UNDEFINED_TEXT

\* every non-empty selected code has a node at its position, with that code
PositionMatch(chain, codes) ==
    \A i \in DOMAIN codes :
        codes[i] # EMPTY =>
            /\ i \in DOMAIN chain
            /\ chain[i].t = "obj"
            /\ CodeText(chain[i]) = codes[i]

\* the document holds exactly one chain, at the configured source path
HoldsOneChain(d, src) ==
    \/ (IsChainDoc(d) /\ src = KeyA)
    \/ (IsWrapperDoc(d) /\ Len(WrapperChains(d)) = 1 /\ src = DefaultSourcePath)

TheChain(d) == IF IsChainDoc(d) THEN d.kv[1].v.el ELSE WrapperChains(d)[1]

\* C13: a chain matches the selected codes exactly when every non-empty
\* selected code has a node at its position whose code, as a string, equals
\* it; an empty selected code never rejects and a chain too short for a
\* required position does not match.
C13_PositionMatch ==
    (op = "match" /\ HoldsOneChain(doc, sourcePath)) =>
        matched = JBool(PositionMatch(TheChain(doc), selectedCodes))

\* the selection ["1", "", "2"] has matched a chain with code 1 at position
\* 0 and the numeric code 2 at position 2
C13_Witness ==
    /\ op = "match"
    /\ HoldsOneChain(doc, sourcePath)
    /\ selectedCodes = <<(<<"1">>), EMPTY, (<<"2">>)>>
    /\ Len(TheChain(doc)) = 3
    /\ TheChain(doc)[2] = JNull
    /\ matched = JBool(TRUE)

\* C14: with no selected code, or only empty ones, matchBreadcrumb returns
\* true for every document and every source path.
C14_EmptySelectionPasses ==
    (op = "match" /\ \A i \in DOMAIN selectedCodes : selectedCodes[i] = EMPTY) =>
        matched = JBool(TRUE)

\* a selection of two empty codes has passed a document that holds no
\* breadcrumb data
C14_Witness ==
    /\ op = "match"
    /\ selectedCodes = <<EMPTY, EMPTY>>
    /\ doc \in ChainlessDocs
    /\ matched = JBool(TRUE)

----------------------------------------------------------------------------
(* Claim about documents with several chains: C15 *)

\* the array the document holds at queries.getCommBreadcrumb, or <<>>
WrapperArray(d) ==
    IF /\ d.t = "obj"
       /\ LookupFrom(d.kv, QUERIES, 1).t = "obj"
       /\ LookupFrom(LookupFrom(d.kv, QUERIES, 1).kv, GET_COMM_BREADCRUMB, 1).t = "arr"
    THEN LookupFrom(LookupFrom(d.kv, QUERIES, 1).kv, GET_COMM_BREADCRUMB, 1).el
    ELSE <<>>

\* the chains the document holds at the source path: the data arrays of the
\* wrapper entries for the default path, the array at the key for the path
\* a, none where there is no array
ChainsAtSource(d, src) ==
    IF src = DefaultSourcePath
    THEN {WrapperArray(d)[i].kv[1].v.el :
            i \in {j \in DOMAIN WrapperArray(d) : WrapperArray(d)[j].t = "obj"}}
    ELSE IF src = KeyA /\ IsChainDoc(d) THEN {d.kv[1].v.el}
    ELSE {}

SomeCodeSelected(codes) == \E i \in DOMAIN codes : codes[i] # EMPTY

\* C15: with a non-empty selected code, a document matches exactly when one
\* of the chains it holds at the source path position-matches the selected
\* codes; a document with no array at the source path does not match.
C15_AnyChainMatches ==
    (op = "match" /\ SomeCodeSelected(selectedCodes)) =>
        matched = JBool(\E chain \in ChainsAtSource(doc, sourcePath) :
                            PositionMatch(chain, selectedCodes))

\* the same, wherever matchBreadcrumb returns
AnyChainMatchesWhereReturned ==
    (op = "match" /\ SomeCodeSelected(selectedCodes) /\ matched # Thrown) =>
        matched = JBool(\E chain \in ChainsAtSource(doc, sourcePath) :
                            PositionMatch(chain, selectedCodes))

----------------------------------------------------------------------------
(* Claims about the option tree: C16 *)

\* the chains the scan of one content looks at: the data arrays under the
\* query wrapper for a source path that names it, the array at the key a for
\* the source path a
ScannedChainsOf(content, src) ==
    IF Includes(src, GET_COMM_BREADCRUMB)
    THEN IF IsWrapperDoc(content) THEN WrapperChains(content) ELSE <<>>
    ELSE IF src = KeyA /\ IsChainDoc(content) THEN <<content.kv[1].v.el>>
    ELSE <<>>

\* the chains of the available files, in file order
RECURSIVE ScannedChains(_, _)
ScannedChains(fileList, src) ==
    IF fileList = <<>> THEN <<>>
    ELSE (IF Head(fileList).isAvailable
          THEN ScannedChainsOf(Head(fileList).content, src) ELSE <<>>)
         \o ScannedChains(Tail(fileList), src)

\* a node that carries a code
CarriesCode(node) == node.t = "obj" /\ ~Falsy(LookupFrom(node.kv, CODE, 1))

\* the nodes of a chain that carry a code
CodedNodes(chain) == SelectSeq(chain, CarriesCode)

\* the codes of a chain, as text
CodeSeq(chain) == [i \in DOMAIN CodedNodes(chain) |-> CodeText(CodedNodes(chain)[i])]

\* the name a node gives its code: its name, or the code when it has none
NameGiven(node) ==
    IF Falsy(LookupFrom(node.kv, NAME, 1)) THEN JStr(CodeText(node))
    ELSE LookupFrom(node.kv, NAME, 1)

\* no two options of a level share a code, at every level
RECURSIVE OneOptionPerCode(_)
OneOptionPerCode(level) ==
    /\ \A i, j \in DOMAIN level.options :
          level.options[i].code = level.options[j].code => i = j
    /\ \A i \in DOMAIN level.options : OneOptionPerCode(level.options[i].children)

\* the option reached from a level by a non-empty sequence of codes, NoOption
\* when the tree has no such path
NoOption == Option(<<>>, Undefined, JMap(<<>>))

RECURSIVE OptionAt(_, _)
OptionAt(level, codes) ==
    LET hits == {i \in DOMAIN level.options : level.options[i].code = Head(codes)}
    IN IF hits = {} THEN NoOption
       ELSE LET option == level.options[CHOOSE i \in hits : TRUE]
            IN IF Len(codes) = 1 THEN option ELSE OptionAt(option.children, Tail(codes))

\* the first chain, in scan order, whose codes start with the given codes
FirstWithPrefix(chains, codes) ==
    LET hits == {c \in DOMAIN chains :
                    /\ Len(CodeSeq(chains[c])) >= Len(codes)
                    /\ SubSeq(CodeSeq(chains[c]), 1, Len(codes)) = codes}
    IN chains[CHOOSE c \in hits : \A d \in hits : c <= d]

\* the tree is a prefix tree of the chains with first-seen names
IsPrefixTreeOf(tree, chains) ==
    /\ OneOptionPerCode(tree)
    /\ \A c \in DOMAIN chains : \A k \in 1..Len(CodeSeq(chains[c])) :
          LET codes == SubSeq(CodeSeq(chains[c]), 1, k)
              option == OptionAt(tree, codes)
          IN /\ option # NoOption
             /\ option.name = NameGiven(CodedNodes(FirstWithPrefix(chains, codes))[k])

\* C16: after the scan of any list of files the option tree is a prefix tree:
\* one option per code at each level, the codes of every scanned chain are a
\* path from the root, and an option carries the name given by the first
\* chain, in file order, that introduced its code at that position
C16_PrefixTree ==
    op = "tree" =>
        /\ breadcrumbTree # Thrown
        /\ IsPrefixTreeOf(breadcrumbTree, ScannedChains(files, sourcePath))

\* wherever the scan returns a tree, it is the prefix tree of the scanned
\* chains with first-seen names
PrefixTreeWhereReturned ==
    (op = "tree" /\ breadcrumbTree # Thrown) =>
        IsPrefixTreeOf(breadcrumbTree, ScannedChains(files, sourcePath))

\* two files give the code "1" at the root different names, and the tree
\* keeps the first
FirstNameKept ==
    /\ op = "tree"
    /\ breadcrumbTree # Thrown
    /\ \E c, d \in DOMAIN ScannedChains(files, sourcePath) :
          LET chains == ScannedChains(files, sourcePath)
          IN /\ c < d
             /\ CodeSeq(chains[c]) # <<>> /\ CodeSeq(chains[d]) # <<>>
             /\ CodeSeq(chains[c])[1] = CodeSeq(chains[d])[1]
             /\ NameGiven(CodedNodes(chains[c])[1]) # NameGiven(CodedNodes(chains[d])[1])
             /\ OptionAt(breadcrumbTree, <<CodeSeq(chains[c])[1]>>).name
                    = NameGiven(CodedNodes(chains[c])[1])

----------------------------------------------------------------------------
(* Claim about the option tree and the matcher: C26 *)

\* the code sequences from the root of the option tree to each of its nodes
RECURSIVE RootToNode(_)
RootToNode(level) ==
    UNION {{<<level.options[i].code>>}
               \cup {<<level.options[i].code>> \o rest :
                        rest \in RootToNode(level.options[i].children)}
           : i \in DOMAIN level.options}

\* some scanned file passes the matcher with the codes selected
SomeFileMatches(codes) ==
    \E i \in DOMAIN files :
        /\ files[i].isAvailable
        /\ matchBreadcrumb(files[i].content, sourcePath, codes) = JBool(TRUE)

\* C26: every code sequence from the root of the option tree to one of its
\* nodes, selected as the breadcrumb filter, matches at least one of the
\* files the tree was built from, also for chains with entries that are null
\* or carry no code.
C26_TreePathsMatch ==
    (op = "tree" /\ breadcrumbTree # Thrown) =>
        \A codes \in RootToNode(breadcrumbTree) : SomeFileMatches(codes)

\* where every entry of every scanned chain carries a code, every path of
\* the tree matches one of the files
GaplessPathsMatch ==
    (/\ op = "tree"
     /\ breadcrumbTree # Thrown
     /\ \A c \in DOMAIN ScannedChains(files, sourcePath) :
            CodedNodes(ScannedChains(files, sourcePath)[c])
                = ScannedChains(files, sourcePath)[c])
        => \A codes \in RootToNode(breadcrumbTree) : SomeFileMatches(codes)

\* a tree with a path of two codes has been built from chains without gaps
GaplessTreeBuilt ==
    /\ op = "tree"
    /\ breadcrumbTree # Thrown
    /\ \A c \in DOMAIN ScannedChains(files, sourcePath) :
           CodedNodes(ScannedChains(files, sourcePath)[c])
               = ScannedChains(files, sourcePath)[c]
    /\ \E codes \in RootToNode(breadcrumbTree) : Len(codes) = 2

----------------------------------------------------------------------------
(* Claims about the export: C17, C18 *)

\* the position in files of the file with that name
FileIndex(name) == CHOOSE i \in DOMAIN files : files[i].name = name

\* the position in files of the k-th available file
ParsableIndex(k) == FileIndex(Available(files)[k].name)

\* C17: the exported rows are in the relative order of the available files
\* they come from, whatever the order in which the reads of a chunk complete
\* and whatever the filter removes.
C17_ExportKeepsOrder ==
    op \in {"exporting", "collected", "exported"} =>
        \A i, j \in DOMAIN results :
            i < j => FileIndex(results[i].SourceFile) < FileIndex(results[j].SourceFile)

\* an export has ended with the rows of two files whose reads completed in
\* the reverse of the file order, and with a file that gave no row
C17_Witness ==
    /\ op = "exported"
    /\ Len(results) >= 2
    /\ Len(results) < Len(Available(files))
    /\ \E i, j \in DOMAIN settled :
          /\ i < j /\ settled[i] > settled[j]
          /\ Falsy(Available(files)[settled[i]].content)
          /\ Falsy(Available(files)[settled[j]].content)
          /\ \E m, n \in DOMAIN results :
                /\ FileIndex(results[m].SourceFile) = ParsableIndex(settled[j])
                /\ FileIndex(results[n].SourceFile) = ParsableIndex(settled[i])

\* the content App.handleExport works on: the parsed content, or the parse
\* of the text
ContentOf(f) == IF Falsy(f.content) THEN JSONParse(f.text, JsonValues) ELSE f.content

\* the breadcrumb filter of the export is on
CrumbFilterOn == filterType = "breadcrumb" /\ FirstCodeChosen(selectedCodes)

\* the processing of the file raises in App.handleExport: its text is not
\* JSON, the matcher raises, the flattening raises, or its content is null
RaisesInExport(f) ==
    \/ ContentOf(f) = Thrown
    \/ /\ ContentOf(f) # Thrown
       /\ \/ CrumbFilterOn /\ matchBreadcrumb(ContentOf(f), sourcePath, selectedCodes) = Thrown
          \/ /\ CrumbFilterOn => matchBreadcrumb(ContentOf(f), sourcePath, selectedCodes) = JBool(TRUE)
             /\ \/ flattenTour(ContentOf(f), selection, rule, DefaultSeparator) = Thrown
                \/ IsNullish(ContentOf(f))

\* the file is processed without raising and a filter removes its row
FilteredOut(f) ==
    /\ ~RaisesInExport(f)
    /\ \/ CrumbFilterOn /\ matchBreadcrumb(ContentOf(f), sourcePath, selectedCodes) = JBool(FALSE)
       \/ /\ filterType = "keyword"
          /\ ~filterFlattenedData(
                  Row(flattenTour(ContentOf(f), selection, rule, DefaultSeparator).cells,
                      TourIdOf(ContentOf(f)), f.name),
                  filterKeyword, ALL, "contains", FALSE)

\* the rows and the tagged failure entries of a file
RowsOf(f) == {i \in DOMAIN results : results[i].SourceFile = f.name}
FailuresOf(f) ==
    {i \in DOMAIN failures :
        failures[i].source_file = f.name /\ failures[i].error_code = E_EXPORT_FAILED}

\* C18: a file whose processing fails during export is reported by one
\* tagged failure entry and aborts nothing: every other file that no filter
\* removes is exported, and no file is in both lists.
C18_FailuresReported ==
    op = "exported" =>
        \A k \in DOMAIN Available(files) :
            LET f == Available(files)[k]
            IN /\ RaisesInExport(f) =>
                     Cardinality(FailuresOf(f)) = 1 /\ RowsOf(f) = {}
               /\ (~RaisesInExport(f) /\ ~FilteredOut(f)) =>
                     Cardinality(RowsOf(f)) = 1 /\ FailuresOf(f) = {}

\* App.handleExport aborts nothing: a file whose processing raises gives no
\* row, and every other file that no filter removes gives exactly one
ExportSkipsFailures ==
    op = "exported" =>
        \A k \in DOMAIN Available(files) :
            LET f == Available(files)[k]
            IN Cardinality(RowsOf(f)) =
                   (IF RaisesInExport(f) \/ FilteredOut(f) THEN 0 ELSE 1)

\* ExportPanel.handleExport reports: each file it is handed ends in exactly
\* one of the two lists, in the failures (tagged, with its name) exactly
\* when its processing raised
PanelReportsFailures ==
    op = "exported" =>
        \A k \in DOMAIN Available(files) :
            LET f == Available(files)[k]
            IN IF PanelRaises(f, selection, DefaultSeparator)
               THEN Cardinality(FailuresOf(f)) = 1 /\ RowsOf(f) = {}
               ELSE Cardinality(RowsOf(f)) = 1 /\ FailuresOf(f) = {}

----------------------------------------------------------------------------
(* Claims about the loaded files and the selection: C19, C20 *)

\* the text is the JSON text of a value
IsJsonText(text) == \E v \in JsonValues : JsonText(v) = text

\* the picked files whose text is JSON
WithJsonText(fileList) == SelectSeq(fileList, LAMBDA f : IsJsonText(f.text))

\* the rows an export of the list gives once it has ended: one per file that
\* neither raises nor is filtered out, in file order
RECURSIVE RowsExpected(_)
RowsExpected(fileList) ==
    IF fileList = <<>> THEN <<>>
    ELSE (IF RaisesInExport(Head(fileList)) \/ FilteredOut(Head(fileList)) THEN <<>>
          ELSE <<Row(flattenTour(ContentOf(Head(fileList)), selection, rule,
                                 DefaultSeparator).cells,
                     TourIdOf(ContentOf(Head(fileList))), Head(fileList).name)>>)
         \o RowsExpected(Tail(fileList))

\* C19: a file whose text is not JSON is marked unavailable and from then on
\* gives nothing to the schema tree, to the breadcrumb tree and to the
\* exported rows, which are those of the other files of the pick alone; the
\* other files are loaded with their parsed content.
C19_InvalidJsonUnavailable ==
    op # "idle" =>
        /\ \A i \in DOMAIN files :
              IF IsJsonText(files[i].text)
              THEN /\ files[i].isAvailable
                   /\ JsonText(files[i].content) = files[i].text
              ELSE ~files[i].isAvailable /\ files[i].content = Undefined
        /\ schemaTree =
              AppSchemaTree(WithJsonText(files), filterType, selectedCodes, sourcePath)
        /\ breadcrumbTree = buildBreadcrumbTree(WithJsonText(files), sourcePath)
        /\ \A i \in DOMAIN results : IsJsonText(files[FileIndex(results[i].SourceFile)].text)
        /\ op = "exported" => results = RowsExpected(WithJsonText(files))

\* three files were picked, the second with a text that is not JSON, and the
\* export has ended with the rows of the first and of the third
C19_Witness ==
    /\ op = "exported"
    /\ Len(files) = 3
    /\ ~IsJsonText(files[2].text)
    /\ schemaTree # NoTree
    /\ Len(results) = 2
    /\ results[1].SourceFile = files[1].name
    /\ results[2].SourceFile = files[3].name

\* the paths of the nodes of the current schema tree
TreePaths == IF schemaTree \in {NoTree, Thrown} THEN {} ELSE {n.path : n \in NodesOf(schemaTree)}

SelectionWithinTreeWhenPresent ==
    schemaTree # NoTree => \A i \in DOMAIN selection : selection[i] \in TreePaths

----------------------------------------------------------------------------
(* Claim about the purity of the schema operations: C25 *)

\* every object there was before the last call is as it was
NothingAltered == \A a \in DOMAIN heapBefore : heap[a] = heapBefore[a]

\* the tree a call returned, as it is now
TreeReturned(k) == TreeOf(heap, roots[k].ref)

\* every tree returned by an inference or a merge is, now, the tree of its
\* inputs
TreesAsReturned ==
    \A k \in DOMAIN roots :
        /\ roots[k].by = "infer" => TreeReturned(k) = InferTree(roots[k].from[1])
        /\ roots[k].by = "merge" =>
               TreeReturned(k) = mergeSchemaTrees(TreeReturned(roots[k].from[1]),
                                                  TreeReturned(roots[k].from[2]))

\* C25: no schema operation alters an object that was there before it was
\* called, be it a node of base or of extra or a tree or schema returned
\* earlier, and the same inputs give the same tree.
C25_SchemaOpsPure ==
    /\ NothingAltered
    /\ TreesAsReturned

\* buildSchemaTree and mergeSchemaTrees alter nothing, and the trees they
\* returned stay the trees of their inputs
TreeOpsPure ==
    /\ op \in {"infer", "merge"} => NothingAltered
    /\ TreesAsReturned

\* a merge of two trees that were themselves merged or inferred has been made
\* and its result shares the children array of neither
MergedTwice ==
    /\ op = "merge"
    /\ Len(roots) = 3
    /\ roots[3].from = <<1, 2>>
    /\ heap[roots[3].ref].children # 0
    /\ heap[roots[3].ref].children \notin
           {heap[roots[1].ref].children, heap[roots[2].ref].children}

----------------------------------------------------------------------------
(* Claim about the last array segment of a path: C24 *)

\* the value stored at the key of the current value: that of the own
\* property of an object, missing (undefined) everywhere else
StoredAt(current, key) ==
    IF current.t = "obj" THEN LookupFrom(current.kv, key, 1) ELSE Undefined

\* the value the plain segments before the last segment lead to
RECURSIVE ReachedBy(_, _)
ReachedBy(current, plain) ==
    IF plain = <<>> THEN current
    ELSE ReachedBy(StoredAt(current, Head(plain)), Tail(plain))

\* the path ends in an array segment and has plain segments before it
EndsInArraySegment(pth) ==
    LET parts == Split(pth)
    IN /\ parts # <<>>
       /\ EndsWithBrackets(parts[Len(parts)])
       /\ \A i \in 1..(Len(parts) - 1) : ~EndsWithBrackets(parts[i])

\* the value at the array segment: the value reached itself for a bare [],
\* the value stored at the key otherwise
ValueAtArraySegment(obj, pth) ==
    LET parts == Split(pth)
        reached == ReachedBy(obj, SubSeq(parts, 1, Len(parts) - 1))
        key == DropLast2(parts[Len(parts)])
    IN IF key = <<>> THEN reached ELSE StoredAt(reached, key)

\* C24: for a path whose last segment is its array segment, getValueByPath
\* returns the array at that segment itself, elements unchanged, a bare []
\* standing for the value reached; when the value there is not an array
\* (object, scalar, null or missing) the result is undefined.
C24_ArraySegment ==
    (op = "resolve" /\ EndsInArraySegment(path)) =>
        value = IF IsArray(ValueAtArraySegment(doc, path))
                THEN ValueAtArraySegment(doc, path)
                ELSE Undefined

\* wherever getValueByPath returns, it returns what the claim says
ArraySegmentWhereReturned ==
    (op = "resolve" /\ EndsInArraySegment(path) /\ value # Thrown) =>
        value = IF IsArray(ValueAtArraySegment(doc, path))
                THEN ValueAtArraySegment(doc, path)
                ELSE Undefined

\* an array that holds a null has been returned for a path that ends in key[]
ArrayWithNullReturned ==
    /\ op = "resolve"
    /\ EndsInArraySegment(path)
    /\ Len(Split(path)) = 2
    /\ value.t = "arr"
    /\ \E i \in DOMAIN value.el : value.el[i] = JNull

----------------------------------------------------------------------------
(* Claim about the order of the selection: C21 *)

\* the paths of the list that are leaf paths of the tree
SelectedLeafPaths(paths, tree) ==
    SelectSeq(paths, LAMBDA q : q \in Range(getAllLeafPaths(tree)))

\* no path of the list comes before a path that the pre-order list of the
\* leaves has earlier
InCanonicalOrder(paths, tree) ==
    LET allPaths == getAllLeafPaths(tree)
        leaves == SelectedLeafPaths(paths, tree)
    IN \A i, j \in DOMAIN leaves :
           i < j => IndexOf(allPaths, leaves[i]) <= IndexOf(allPaths, leaves[j])

\* C21: after a click on a checkbox of the tree, single or batch, the
\* selected leaf paths are in the order of getAllLeafPaths(schemaTree).
C21_CanonicalOrder ==
    op = "toggle" => InCanonicalOrder(selection, schemaTree)

\* a click has left the three leaf paths of a tree selected
C21_Witness ==
    /\ op = "toggle"
    /\ Len(SelectedLeafPaths(selection, schemaTree)) = 3
    /\ Cardinality(Range(selection)) >= 3
    /\ InCanonicalOrder(selection, schemaTree)

----------------------------------------------------------------------------
(* Claim about the paths of the nodes of a tree: C23 *)

\* the paths of the nodes of the tree, the root first
RECURSIVE NodePathList(_)
NodePathList(node) ==
    LET below[n \in 0..Len(node.children)] ==
            IF n = 0 THEN <<>> ELSE below[n - 1] \o NodePathList(node.children[n])
    IN <<node.path>> \o below[Len(node.children)]

\* no element of the list is repeated
NoRepeat(seq) == \A i, j \in DOMAIN seq : seq[i] = seq[j] => i = j

\* C23: in a tree inferred from a document or folded from several, no two
\* nodes have the same path, and getAllLeafPaths lists no path twice.
C23_PathsUnique ==
    op \in {"infer", "merge"} =>
        /\ NoRepeat(NodePathList(schemaTree))
        /\ NoRepeat(getAllLeafPaths(schemaTree))

\* the keys of the document and of the objects and arrays in it
RECURSIVE KeysIn(_)
KeysIn(v) ==
    IF v.t = "obj"
    THEN {v.kv[i].k : i \in DOMAIN v.kv} \cup UNION {KeysIn(v.kv[i].v) : i \in DOMAIN v.kv}
    ELSE IF v.t = "arr" THEN UNION {KeysIn(v.el[i]) : i \in DOMAIN v.el}
    ELSE {}

\* where every key of every folded document is a plain key, the paths of the
\* nodes are distinct
PlainKeysPathsUnique ==
    (op \in {"infer", "merge"} /\ \A i \in DOMAIN merged : KeysIn(merged[i]) \subseteq Keys) =>
        /\ NoRepeat(NodePathList(schemaTree))
        /\ NoRepeat(getAllLeafPaths(schemaTree))

----------------------------------------------------------------------------
(* Claim about the sampling of the schema memo: C22 *)

\* floor(i * N / M) in exact arithmetic, for the i-th round counted from 0
ExactIndex(i) == (i * matchesLength) \div MAX_SCHEMA_SAMPLES

\* the indices are strictly increasing, within 0..N-1 and start at 0
IncreasingWithin ==
    /\ \A k \in DOMAIN sampleIndices : sampleIndices[k] \in 0..(matchesLength - 1)
    /\ \A k \in 1..(Len(sampleIndices) - 1) : sampleIndices[k] < sampleIndices[k + 1]
    /\ sampleIndices # <<>> => sampleIndices[1] = 0

\* the gaps between consecutive indices differ by at most 1
EvenGaps ==
    LET gaps == {sampleIndices[k + 1] - sampleIndices[k] : k \in 1..(Len(sampleIndices) - 1)}
    IN \A g, h \in gaps : g - h <= 1

\* every document is used up to the cap, exactly the cap beyond it
BoundedCount ==
    op = "sampled" =>
        IF matchesLength <= MAX_SCHEMA_SAMPLES
        THEN sampleIndices = [k \in 1..matchesLength |-> k - 1]
        ELSE Len(sampleIndices) = MAX_SCHEMA_SAMPLES

\* C22: all N matching documents are used when N <= M; otherwise exactly M
\* are used, at the indices floor(i*N/M) for i = 0..M-1, which are strictly
\* increasing, within 0..N-1, start at 0 and have gaps that differ by at
\* most 1.
C22_EvenSample ==
    /\ BoundedCount
    /\ matchesLength > MAX_SCHEMA_SAMPLES =>
           \A k \in DOMAIN sampleIndices : sampleIndices[k] = ExactIndex(k - 1)
    /\ IncreasingWithin
    /\ EvenGaps

\* the sample is bounded and spread: the count, the order, the range and
\* the gaps are as stated, and an index is floor(i*N/M) or one less
SampleBoundedAndSpread ==
    /\ BoundedCount
    /\ IncreasingWithin
    /\ EvenGaps
    /\ matchesLength > MAX_SCHEMA_SAMPLES =>
           \A k \in DOMAIN sampleIndices :
               sampleIndices[k] \in {ExactIndex(k - 1), ExactIndex(k - 1) - 1}

\* a sample of more documents than the cap has been taken
SampleTaken ==
    /\ op = "sampled"
    /\ matchesLength > MAX_SCHEMA_SAMPLES
    /\ Len(sampleIndices) = MAX_SCHEMA_SAMPLES
    /\ sampleIndices[MAX_SCHEMA_SAMPLES] > MAX_SCHEMA_SAMPLES

----------------------------------------------------------------------------
(* What the other variants of the repository do on the same inputs *)

\* the guard-first getValueByPath raises on no document and no path, and
\* gives what the first getValueByPath gives wherever that one returns
GuardFirstNeverRaises ==
    op = "resolve" =>
        /\ getValueByPathGuardFirst(doc, path) # Thrown
        /\ value # Thrown => getValueByPathGuardFirst(doc, path) = value

\* the composite-merge buildSchemaTree gives the fields of the elements of
\* the array at a root key K the paths K[].f, with no item segment
CompositeFieldPaths ==
    op = "infer" =>
        LET paths == Range(getAllChildrenPaths(buildSchemaTreeComposite(doc, EMPTY, ROOT)))
        IN /\ \A i \in ArrayKeys(doc) : \A f \in Keys :
                 ElementsWithField(doc, i, f) # {} => FieldPaths(doc, i, f) \cap paths # {}
           /\ \A pth \in paths : \A n \in DOMAIN Split(pth) : Split(pth)[n] # ITEM

----------------------------------------------------------------------------
(* C27: the shape of the breadcrumb selection *)

\* the codes from position i on follow the options downwards: each one is the
\* code of an option of the level its predecessor's option opens
RECURSIVE IsChain(_, _, _)
IsChain(options, codes, i) ==
    IF i > Len(codes) THEN TRUE
    ELSE IF codes[i] = EMPTY THEN \A k \in i..Len(codes) : codes[k] = EMPTY
    ELSE \E k \in DOMAIN options :
            /\ options[k].code = codes[i]
            /\ IsChain(options[k].children.options, codes, i + 1)

AllButLastChosen ==
    \A k \in 1..(Len(selectedCodes) - 1) : selectedCodes[k] # EMPTY

\* C27: after any sequence of level changes on displayed dropdowns and of
\* Clear Filter, every code of breadcrumbPath but the last is non-empty, a
\* change of level i leaves exactly the codes 0..i, and, as long as the option
\* tree has not been rebuilt since, every non-empty code is the code of a
\* child of the option selected one position before
C27_SelectionShape ==
    /\ AllButLastChosen
    /\ op = "level" => Len(selectedCodes) = levelIndex + 1
    /\ op \in {"tree", "level", "clear"} =>
           IsChain(breadcrumbTree.options, selectedCodes, 1)

\* a level below the first was changed to one of its options, after a longer
\* selection had been possible
C27_Witness ==
    /\ op = "level"
    /\ levelIndex >= 1
    /\ Len(selectedCodes) = levelIndex + 1
    /\ selectedCodes[levelIndex + 1] # EMPTY
    /\ Len(levels(breadcrumbTree, selectedCodes)) >= 2

----------------------------------------------------------------------------
(* C30: the counters of a chunked export *)

CountersInOrder ==
    op \in {"exporting", "collected", "exported"} =>
        /\ filteredCount.n <= processedCount.n
        /\ processedCount.n <= Len(Available(files))
        /\ exportProgress \in 0..100

CountersAtTheEnd ==
    op = "exported" =>
        /\ processedCount.n = Len(Available(files))
        /\ filteredCount.n = Len(results)
        /\ isExporting = FALSE

ProgressGrows ==
    (op = "exporting" /\ op' \in {"exporting", "collected"}) =>
        exportProgress' >= exportProgress

\* C30: during a chunked export filteredCount <= processedCount <= the number
\* of available files after every chunk, exportProgress stays within 0..100
\* and does not decrease from chunk to chunk, and when the export has
\* finished processedCount is the number of available files, filteredCount
\* the number of exported rows and isExporting is false, also when files
\* fail to process
C30_CountersConsistent ==
    /\ [](CountersInOrder /\ CountersAtTheEnd)
    /\ [][ProgressGrows]_vars

\* an export of more than one chunk has finished, one file of it failed to
\* process and one gave a row
C30_Witness ==
    /\ op = "exported"
    /\ Len(Available(files)) > CHUNK_SIZE
    /\ filteredCount.n >= 1
    /\ filteredCount.n < processedCount.n
    /\ \E k \in DOMAIN Available(files) : Processed(k) = JNull
    /\ filterType # "keyword"

----------------------------------------------------------------------------
(* C28, C29: lazy scanning *)

Quiet ==
    /\ ~isScanning
    /\ ~isExporting
    /\ passes = <<>>
    /\ queued = <<>>
    /\ ~effect.pending

\* C28: for every loaded file set the busy flag returns to false for good,
\* and from some point on no scan is started and the file list is not updated
C28_ScanQuiesces == <>[]Quiet

NoFalsyContent ==
    \A i \in DOMAIN files :
        files[i].isAvailable =>
            /\ Falsy(files[i].content) => ~Falsy(JSONParse(files[i].text, JsonValues))
            /\ files[i].content # Undefined => ~Falsy(files[i].content)

\* scanning comes to rest for the file sets without an available file whose
\* JSON content is a falsy value
QuiescesWithoutFalsyContent == <>[](NoFalsyContent => Quiet)

AtMostOnePass == Len(passes) <= 1

\* what a pass has stored in a file stays: the content of a file changes only
\* from a falsy value to what JSON.parse gives for its text
NoStaleCopy ==
    op = "load" =>
        \A i \in DOMAIN files :
            files'[i].content # files[i].content =>
                /\ Falsy(files[i].content)
                /\ files'[i].content = JSONParse(files[i].text, JsonValues)
                /\ \E p \in DOMAIN passes : i \in passes[p].reads

\* C29: under every interleaving of the files-changed effect, the chunk
\* timers, the reads and the renders of the queued state updates, no second
\* scan pass is running while an earlier one has not returned, and no
\* content stored by a pass is replaced by an older one
C29_OnePassAtATime == []AtMostOnePass /\ [][NoStaleCopy]_vars

\* the second chunk of a pass is being read after the file array of its
\* first chunk was rendered and the effect of that render has run, with files
\* still to parse
C29_Witness ==
    /\ Len(passes) = 1
    /\ passes[1].i > 0
    /\ passes[1].hasUpdates
    /\ passes[1].reads # {}
    /\ isScanning
    /\ queued = <<>>
    /\ ~effect.pending
    /\ hasUnparsed(files)


====
